---- MODULE Spec2Model ----
(***************************************************************************)
(* A model of bitget_flex_manager_cli: the account registry               *)
(* synchronisation (check_config_needs_update,                            *)
(* update_config_with_subaccounts), the savings planner and executor      *)
(* (step3_user_selection, step4_execute_operations) and the transfer      *)
(* planner and executor (transfer_step2_user_selection,                   *)
(* transfer_step3_execute_operations), the credential issuance, the two    *)
(* workflows behind the menu on a config file of every kind, the snapshot  *)
(* collection with its pool of three workers, and the thread of the update *)
(* check.                                                                  *)
(*                                                                         *)
(* Amounts are exact decimals counted in units of 0.000001 coin (the      *)
(* precision the program prints with), so 0.1 coin is 100000 units.       *)
(* An empty Python string is the empty sequence.  External uids are       *)
(* decimal strings, modelled as sequences of digits.                      *)
(***************************************************************************)
EXTENDS Integers, Sequences, FiniteSets, TLC

VARIABLES
    pc,                     \* position of the control thread
    config,                 \* config file contents: the 'accounts' mapping
    selected_config_path,   \* bitget_api._selected_config_path is set
    config_file,            \* what the file at that path holds
    update_thread,          \* the daemon thread started by check_version_async
    subaccounts,            \* ensure_target_subaccounts: existing_subaccounts
    needs_update,           \* ensure_target_subaccounts: needs_update
    before,                 \* the config as it was when the handler started
    runs,                   \* number of menu choices served so far
    selected_product,       \* the product chosen in step 1
    account_status,         \* savings snapshot: account id -> query results
    account_balances,       \* transfer snapshot: account id -> query results
    final_account_status,   \* savings snapshot taken again after the execution
    report,                 \* step5_final_query: the comparison it prints
    selected_accounts,      \* step3_user_selection: selected_accounts
    op_choice,              \* step3_user_selection: op_choice
    direction_choice,       \* transfer_step2_user_selection: direction_choice
    transfer_mode,          \* transfer_step2_user_selection: transfer_mode
    transfer_amount_per_account,
    selection_line,         \* transfer planner: the fields of target_choice / source_choice
    requested_subs,         \* transfer planner: selected_subs as first parsed
    auto_select,            \* transfer planner: answer to the reduced-plan offer
    operations,             \* the plan handed to the executor
    plan_return,            \* what the planner returned: "None" or "list"
    op_index,               \* executor: the loop variable i (from 0)
    trace,                  \* executor: gateway calls, outcomes and sleeps
    holding,                \* exchange: product holding of each account
    wallet,                 \* exchange: spot available balance of each account
    faults                  \* gateway faults injected so far

cfgVars == <<config, selected_config_path, config_file, update_thread>>
regVars == <<subaccounts, needs_update, before, runs>>
snapVars == <<selected_product, account_status, account_balances, final_account_status,
             report>>
planVars == <<selected_accounts, op_choice, direction_choice, transfer_mode,
              transfer_amount_per_account, selection_line, requested_subs,
              auto_select,
              operations, plan_return>>
execVars == <<op_index, trace>>
exchVars == <<holding, wallet, faults>>

vars == <<pc, cfgVars, regVars, snapVars, planVars, execVars, exchVars>>

(***************************************************************************)
(* Bounds of the model.                                                    *)
(***************************************************************************)
MaxUid == 5         \* number of distinct external uids the exchange may hold
MaxRuns == 2        \* initialisation runs in one behaviour

(***************************************************************************)
(* Program constants.                                                      *)
(***************************************************************************)
TARGET_SUBACCOUNT_COUNT == 4

Empty == << >>

Min(a, b) == IF a <= b THEN a ELSE b
Max(a, b) == IF a >= b THEN a ELSE b

(***************************************************************************)
(* External uids.  The exchange reports a uid as a decimal string; the     *)
(* pool straddles a change in the number of digits, so that numeric and    *)
(* lexicographic order differ.                                             *)
(***************************************************************************)
RECURSIVE UidStr(_)
UidStr(n) == IF n < 10 THEN <<n>> ELSE UidStr(n \div 10) \o <<n % 10>>

UidPool == {UidStr(7 + n) : n \in 1..MaxUid}

\* int(x.get('subAccountUid'))
RECURSIVE int(_)
int(s) == IF s = << >> THEN 0 ELSE 10 * int(SubSeq(s, 1, Len(s) - 1)) + s[Len(s)]

Range(s) == {s[i] : i \in 1..Len(s)}

\* every list of distinct uids the exchange can return
ExchangeLists ==
    UNION {{s \in [1..k -> UidPool] : \A i, j \in 1..k : i # j => s[i] # s[j]} :
           k \in 0..MaxUid}

\* subaccounts[:n]
Take(s, n) == SubSeq(s, 1, Min(n, Len(s)))

\* str(i + 1): the account id of slot i
SlotNames == <<"1", "2", "3", "4", "5", "6", "7", "8", "9">>
str(i) == SlotNames[i]
SlotNo(k) == CHOOSE i \in 1..Len(SlotNames) : SlotNames[i] = k

(***************************************************************************)
(* sorted(..., key=lambda x: int(x.get('subAccountUid'))): a stable        *)
(* insertion sort by numeric uid.                                          *)
(***************************************************************************)
RECURSIVE InsertByInt(_, _)
InsertByInt(s, x) ==
    IF s = << >> THEN <<x>>
    ELSE IF int(s[Len(s)]) <= int(x) THEN Append(s, x)
    ELSE Append(InsertByInt(SubSeq(s, 1, Len(s) - 1), x), s[Len(s)])

RECURSIVE sorted(_)
sorted(s) ==
    IF s = << >> THEN << >>
    ELSE InsertByInt(sorted(SubSeq(s, 1, Len(s) - 1)), s[Len(s)])

(***************************************************************************)
(* The config file.                                                        *)
(***************************************************************************)
SubEntry(uid, ak, sk, pp) ==
    [type |-> "sub", uuid |-> uid, apikey |-> ak, secret |-> sk, passphrase |-> pp]

MainEntry ==
    [type |-> "main", uuid |-> <<1>>, apikey |-> <<"apikey", "main", 0>>,
     secret |-> <<"secret", "main", 0>>, passphrase |-> <<"passphrase", "main", 0>>]

\* {k: v for k, v in config['accounts'].items() if v.get('type') == 'sub'}
existing_sub_accounts(cfg) == {k \in DOMAIN cfg : cfg[k].type = "sub"}

(***************************************************************************)
(* check_config_needs_update, for a config that loads.                     *)
(***************************************************************************)
check_config_needs_update(cfg, subs) ==
    LET subaccounts_sorted == sorted(Take(subs, TARGET_SUBACCOUNT_COUNT))
        existing == existing_sub_accounts(cfg)
    IN  IF Cardinality(existing) # Len(subaccounts_sorted) THEN TRUE
        ELSE \E i \in 1..Len(subaccounts_sorted) :
                \/ str(i) \notin existing
                \/ cfg[str(i)].uuid # subaccounts_sorted[i]

(***************************************************************************)
(* update_config_with_subaccounts, for a config that loads.  The dict is   *)
(* iterated in file order, which is ascending slot number; for a uid held  *)
(* by two entries the later one wins.                                      *)
(***************************************************************************)
existing_uuid_to_config(cfg) ==
    LET subs == {k \in DOMAIN cfg : cfg[k].type = "sub" /\ cfg[k].uuid # Empty}
        last(u) == CHOOSE k \in subs :
                      /\ cfg[k].uuid = u
                      /\ \A j \in subs : cfg[j].uuid = u => SlotNo(j) <= SlotNo(k)
    IN  [u \in {cfg[k].uuid : k \in subs} |->
            [apikey |-> cfg[last(u)].apikey,
             secret |-> cfg[last(u)].secret,
             passphrase |-> cfg[last(u)].passphrase]]

\* a variant that keeps whatever credentials the slot held, not the uid
update_config_keep_slot_credentials(cfg, subs) ==
    LET subaccounts_sorted == sorted(Take(subs, TARGET_SUBACCOUNT_COUNT))
        written == {str(i) : i \in 1..Len(subaccounts_sorted)}
        entry(i) ==
            IF str(i) \in DOMAIN cfg
            THEN SubEntry(subaccounts_sorted[i], cfg[str(i)].apikey,
                          cfg[str(i)].secret, cfg[str(i)].passphrase)
            ELSE SubEntry(subaccounts_sorted[i], Empty, Empty, Empty)
    IN  [k \in DOMAIN cfg \cup written |->
            IF k \in written THEN entry(SlotNo(k)) ELSE cfg[k]]

update_config_with_subaccounts(cfg, subs) ==
    LET lookup == existing_uuid_to_config(cfg)
        subaccounts_sorted == sorted(Take(subs, TARGET_SUBACCOUNT_COUNT))
        written == {str(i) : i \in 1..Len(subaccounts_sorted)}
        entry(i) ==
            LET uid == subaccounts_sorted[i]
            IN  IF uid \in DOMAIN lookup
                THEN SubEntry(uid, lookup[uid].apikey, lookup[uid].secret,
                              lookup[uid].passphrase)
                ELSE SubEntry(uid, Empty, Empty, Empty)
    IN  [k \in DOMAIN cfg \cup written |->
            IF k \in written THEN entry(SlotNo(k)) ELSE cfg[k]]

(***************************************************************************)
(* load_config, bitget_api.py lines 71-95.  The file at the selected path  *)
(* holds the accounts ("accounts"), is gone or unreadable ("missing"), is  *)
(* not JSON ("invalid_json"), or is JSON of another shape, a non-empty     *)
(* array ("json_array"), which json.load returns as a list.                *)
(***************************************************************************)
ConfigFiles == {"accounts", "missing", "invalid_json", "json_array"}

load_config(path_selected, file) ==
    IF ~path_selected THEN "None"
    ELSE IF file = "accounts" THEN "dict"
    ELSE IF file = "json_array" THEN "list"
    ELSE "None"

(***************************************************************************)
(* The update check of version_checker.py.  check_version_async starts a   *)
(* daemon thread whose worker posts the version check and hands a truthy   *)
(* result to the callback.                                                 *)
(***************************************************************************)
\* what the request of check_version_sync comes to: a result that announces
\* an update, a result that does not, a JSON body that is not an object, a
\* status other than 200, a RequestException (a timeout is one), or any
\* other exception
CheckOutcomes ==
    {"update_available", "up_to_date", "not_a_dict", "http_error", "RequestException",
     "Exception"}

NotStarted == [state |-> "not_started", result |-> "None", notified |-> FALSE]
Running == [state |-> "running", result |-> "None", notified |-> FALSE]

\* version_checker.py lines 85-125 and 127-144: the thread after its worker
\* ended.  check_version_sync returns the body on status 200 and None
\* otherwise; the callback prints the notification when the result says
\* update_available, and raises inside the thread when the result has no get
Ended(outcome) ==
    [state |-> IF outcome = "not_a_dict" THEN "died" ELSE "ended",
     result |-> IF outcome \in {"update_available", "up_to_date", "not_a_dict"}
                THEN outcome ELSE "None",
     notified |-> outcome = "update_available"]

(***************************************************************************)
(* The initialisation handler of main(): choice '1'.                       *)
(***************************************************************************)
InitConfig == [k \in {"main"} |-> MainEntry]

\* no workflow has run: nothing queried, planned or executed
NoReport ==
    [rows |-> << >>,
     totals |-> [before_holding |-> 0, before_wallet |-> 0, after_holding |-> 0,
                 after_wallet |-> 0, holding_change |-> 0, wallet_change |-> 0,
                 change_desc |-> ""],
     tiers |-> << >>, tier1_accounts |-> 0, tier2_accounts |-> 0]
NoProduct == [productId |-> "", periodType |-> "", apyList |-> << >>]
NoPlan ==
    /\ selected_accounts = << >>
    /\ op_choice = ""
    /\ direction_choice = ""
    /\ transfer_mode = ""
    /\ transfer_amount_per_account = 0
    /\ selection_line = << >>
    /\ requested_subs = << >>
    /\ auto_select = ""
    /\ operations = << >>
    /\ plan_return = ""
IdleWorkflow ==
    /\ selected_product = NoProduct
    /\ account_status = << >>
    /\ account_balances = << >>
    /\ final_account_status = << >>
    /\ report = NoReport
    /\ NoPlan
    /\ op_index = 0
    /\ trace = << >>
    /\ holding = << >>
    /\ wallet = << >>
    /\ faults = 0

InitRegistry ==
    /\ pc = "menu"
    /\ config = InitConfig
    /\ selected_config_path = FALSE
    /\ config_file = "accounts"
    /\ update_thread = Ended("up_to_date")
    /\ subaccounts = << >>
    /\ needs_update = FALSE
    /\ before = InitConfig
    /\ runs = 0
    /\ IdleWorkflow

\* main(), choice '1', step 0: load_config(allow_file_selection=True)
main_select_config ==
    /\ pc = "menu"
    /\ runs < MaxRuns
    /\ runs' = runs + 1
    /\ \/ /\ selected_config_path' = TRUE       \* a file is chosen and loads
          /\ pc' = "init_step1"
       \/ /\ UNCHANGED selected_config_path     \* the dialog is cancelled
          /\ pc' = "menu"
    /\ UNCHANGED <<config, config_file, update_thread, subaccounts, needs_update, before>>
    /\ UNCHANGED <<snapVars, planVars, execVars, exchVars>>

\* steps 4 of ensure_target_subaccounts, on the list finally fetched
SyncConfig(subs) ==
    /\ subaccounts' = subs
    /\ before' = config
    /\ needs_update' = check_config_needs_update(config, subs)
    /\ config' = IF check_config_needs_update(config, subs)
                 THEN update_config_with_subaccounts(config, subs)
                 ELSE config
    /\ pc' = "init_step2"

\* subs is the list the handler ends up with: the first answer of
\* get_virtual_subaccount_list when it already holds TARGET_SUBACCOUNT_COUNT
\* entries, otherwise the list fetched again after the batch creation (of
\* which any part may have failed).
ensure_target_subaccounts ==
    /\ pc = "init_step1"
    /\ \/ \* a list query or the batch creation answers with an error code
          /\ pc' = "menu"
          /\ before' = config
          /\ UNCHANGED <<config, subaccounts, needs_update>>
       \/ \E subs \in ExchangeLists : SyncConfig(subs)
    /\ UNCHANGED <<selected_config_path, config_file, update_thread, runs>>
    /\ UNCHANGED <<snapVars, planVars, execVars, exchVars>>

\* credentials issued by create_subaccount_apikey for an account in a run
NewCreds(account_id, uid) ==
    SubEntry(uid, <<"apikey", account_id, runs>>, <<"secret", account_id, runs>>,
             <<"passphrase", account_id, runs>>)

\* a variant that asks for a key for every sub-account
subaccounts_to_create_every_sub(cfg) ==
    SelectSeq(SlotNames, LAMBDA k : k \in DOMAIN cfg /\ cfg[k].type = "sub")

\* lines 50-58: the sub-accounts whose api key is empty, in file order
subaccounts_to_create(cfg) ==
    SelectSeq(SlotNames,
              LAMBDA k : k \in DOMAIN cfg /\ cfg[k].type = "sub" /\ cfg[k].apikey = Empty)

\* the answers of create_subaccount_apikey in one run over len accounts: an
\* answer with code 00000, an answer with an error code, or an exception
\* raised by make_bitget_request, which nothing catches and which ends the
\* loop at that call
IssuanceResults(len) ==
    {r \in UNION {[1..n -> {"success", "failure", "exception"}] : n \in 1..len} :
        /\ \A i \in 1..Len(r) - 1 : r[i] # "exception"
        /\ Len(r) < len => r[Len(r)] = "exception"}

\* lines 101-124: the in-memory config gets the new credentials of every
\* account whose call answered 00000, and save_config at line 124 writes it
\* once, after the loop; a run that an exception ends never reaches it
saved_config(cfg, to_create, results) ==
    IF results[Len(results)] = "exception" THEN cfg
    ELSE [k \in DOMAIN cfg |->
            IF \E n \in 1..Len(results) : to_create[n] = k /\ results[n] = "success"
            THEN NewCreds(k, cfg[k].uuid)
            ELSE cfg[k]]

\* the calls of one run, as the gateway saw them
issuance_calls(cfg, to_create, results) ==
    [n \in 1..Len(results) |->
        [event |-> "call", index |-> n,
         request |-> [account_id |-> to_create[n],
                      sub_account_uid |-> cfg[to_create[n]].uuid,
                      passphrase |-> NewCreds(to_create[n], cfg[to_create[n]].uuid).passphrase],
         outcome |-> results[n],
         data |-> IF results[n] = "success"
                  THEN [subAccountApiKey |->
                            NewCreds(to_create[n], cfg[to_create[n]].uuid).apikey,
                        secretKey |->
                            NewCreds(to_create[n], cfg[to_create[n]].uuid).secret]
                  ELSE Empty]]

\* lines 41-131
create_apikeys_for_subaccounts ==
    /\ pc = "init_step2"
    /\ LET to_create == subaccounts_to_create(config)
       IN  IF to_create = << >>
           THEN /\ config' = config
                /\ trace' = << >>
                /\ pc' = "menu"
           ELSE \E results \in IssuanceResults(Len(to_create)) :
                   /\ config' = saved_config(config, to_create, results)
                   /\ trace' = issuance_calls(config, to_create, results)
                         \o IF results[Len(results)] = "exception" THEN << >>
                            ELSE <<[event |-> "save_config"]>>
                   /\ pc' = IF results[Len(results)] = "exception" THEN "crashed"
                            ELSE "menu"
    /\ subaccounts' = << >>
    /\ needs_update' = FALSE
    /\ before' = config
    /\ UNCHANGED <<selected_config_path, config_file, update_thread, runs>>
    /\ UNCHANGED <<snapVars, planVars, op_index, exchVars>>

NextRegistry ==
    \/ main_select_config
    \/ ensure_target_subaccounts
    \/ create_apikeys_for_subaccounts

SpecRegistry == InitRegistry /\ [][NextRegistry]_vars

(***************************************************************************)
(* Amounts.  Amt(w, m) is w coins and m millionths of a coin, counted in   *)
(* units of 0.0000001 coin.                                                *)
(***************************************************************************)
Amt(whole, millionths) == whole * 10000000 + millionths * 10

\* the minimum subscription of step3_user_selection: can_deposit >= 0.1
MinSubscribe == Amt(0, 100000)

(***************************************************************************)
(* Accounts of the workflows: a config whose main account and first n      *)
(* sub-accounts carry credentials, as the initialisation leaves it.        *)
(***************************************************************************)
ConfigWithSubs(n) ==
    [k \in {"main"} \cup {str(m) : m \in 1..n} |->
        IF k = "main" THEN MainEntry
        ELSE SubEntry(UidStr(7 + SlotNo(k)), <<"apikey", k, 1>>, <<"secret", k, 1>>,
                      <<"passphrase", k, 1>>)]

\* dict order of the accounts: the order of the config file
AccountOrder == <<"main">> \o SlotNames
KeysInOrder(f) == SelectSeq(AccountOrder, LAMBDA k : k \in DOMAIN f)

\* step2_query_current_assets / transfer_step1_query_balances: the accounts
\* of type main or sub that have an api key and a secret
accounts_with_keys(cfg) ==
    {k \in DOMAIN cfg : /\ cfg[k].type \in {"main", "sub"}
                        /\ cfg[k].apikey # Empty
                        /\ cfg[k].secret # Empty}

(***************************************************************************)
(* Gateway answers.                                                        *)
(***************************************************************************)
ErrorCode == "40001"
SavingsAnswer(product_id, amount) ==
    [code |-> "00000",
     data |-> [resultList |-> IF amount > 0
                              THEN <<[productId |-> product_id, holdAmount |-> amount]>>
                              ELSE << >>]]
SavingsError == [code |-> ErrorCode, data |-> [resultList |-> << >>]]
WalletAnswer(amount) == [code |-> "00000", data |-> <<[available |-> amount]>>]
WalletEmptyAnswer == [code |-> "00000", data |-> << >>]
WalletError == [code |-> ErrorCode, data |-> << >>]

(***************************************************************************)
(* Savings products: a first tier up to Tier1Ceiling, with or without a    *)
(* second tier.                                                            *)
(***************************************************************************)
Tier1Ceiling == Amt(30, 0)
Product(product_id, ceilings) ==
    [productId |-> product_id, periodType |-> "flexible",
     apyList |-> [n \in 1..Len(ceilings) |-> [maxStepVal |-> ceilings[n]]]]
Products == {Product("p1", <<Tier1Ceiling>>),
             Product("p2", <<Tier1Ceiling, Amt(200, 0)>>)}

(***************************************************************************)
(* step3_user_selection.                                                   *)
(***************************************************************************)
\* a line typed at a prompt that int() is applied to: a number, or text for
\* which int() raises ValueError
Number(n) == [valid |-> TRUE, value |-> n]
NotANumber == [valid |-> FALSE, value |-> 0]

\* tier1_limit = float(max_val) of the first tier
tier1_limit(product) == product.apyList[1].maxStepVal

\* lines 510-518: the holding of the product, 0 when the query failed
personal_holding(status, product) ==
    IF status.savings_result.code = "00000"
    THEN LET result_list == status.savings_result.data.resultList
             hits == {n \in 1..Len(result_list) :
                         result_list[n].productId = product.productId}
         IN  IF hits = {} THEN 0
             ELSE result_list[CHOOSE n \in hits : \A m \in hits : n <= m].holdAmount
    ELSE 0

\* lines 520-526: the wallet balance, 0 when the query failed
wallet_available(status) ==
    IF status.wallet_result.code = "00000" /\ status.wallet_result.data # << >>
    THEN status.wallet_result.data[1].available
    ELSE 0

\* lines 505-541
valid_accounts(acc_status, product) ==
    LET ids == KeysInOrder(acc_status)
    IN  [n \in 1..Len(ids) |->
            [id |-> ids[n],
             type |-> acc_status[ids[n]].account_info.type,
             holding |-> personal_holding(acc_status[ids[n]], product),
             wallet |-> wallet_available(acc_status[ids[n]]),
             space_to_tier1 |->
                 Max(0, tier1_limit(product) - personal_holding(acc_status[ids[n]], product))]]

\* a variant whose minimum test is strict: a deposit of exactly 0.1 is skipped
RECURSIVE plan_operations_strict_minimum(_, _, _)
plan_operations_strict_minimum(accounts, choice, limit) ==
    IF accounts = << >> THEN << >>
    ELSE LET account == Head(accounts)
             rest == plan_operations_strict_minimum(Tail(accounts), choice, limit)
             can_deposit == Min(account.wallet, account.space_to_tier1)
         IN  IF choice = "1" /\ can_deposit > MinSubscribe
             THEN <<[account_id |-> account.id, action |-> "subscribe",
                     amount |-> can_deposit]>> \o rest
             ELSE rest

\* a variant that deposits the whole wallet, whatever room the tier leaves
RECURSIVE plan_operations_whole_wallet(_, _, _)
plan_operations_whole_wallet(accounts, choice, limit) ==
    IF accounts = << >> THEN << >>
    ELSE LET account == Head(accounts)
             rest == plan_operations_whole_wallet(Tail(accounts), choice, limit)
         IN  IF choice = "1" /\ account.wallet >= MinSubscribe
             THEN <<[account_id |-> account.id, action |-> "subscribe",
                     amount |-> account.wallet]>> \o rest
             ELSE rest

\* a variant that also redeems from an account exactly at the ceiling
RECURSIVE plan_operations_redeem_at_ceiling(_, _, _)
plan_operations_redeem_at_ceiling(accounts, choice, limit) ==
    IF accounts = << >> THEN << >>
    ELSE LET account == Head(accounts)
             rest == plan_operations_redeem_at_ceiling(Tail(accounts), choice, limit)
             can_deposit == Min(account.wallet, account.space_to_tier1)
         IN  IF choice = "1"
             THEN IF can_deposit >= MinSubscribe
                  THEN <<[account_id |-> account.id, action |-> "subscribe",
                          amount |-> can_deposit]>> \o rest
                  ELSE rest
             ELSE IF choice = "2"
             THEN IF account.holding >= limit
                  THEN <<[account_id |-> account.id, action |-> "redeem",
                          amount |-> account.holding - limit]>> \o rest
                  ELSE rest
             ELSE IF account.holding > 0
                  THEN <<[account_id |-> account.id, action |-> "redeem",
                          amount |-> account.holding]>> \o rest
                  ELSE rest

\* a variant whose drain-all redeems from every selected account, holding or
\* not
RECURSIVE plan_operations_redeem_nothing(_, _, _)
plan_operations_redeem_nothing(accounts, choice, limit) ==
    IF accounts = << >> THEN << >>
    ELSE LET account == Head(accounts)
             rest == plan_operations_redeem_nothing(Tail(accounts), choice, limit)
             can_deposit == Min(account.wallet, account.space_to_tier1)
         IN  IF choice = "1"
             THEN IF can_deposit >= MinSubscribe
                  THEN <<[account_id |-> account.id, action |-> "subscribe",
                          amount |-> can_deposit]>> \o rest
                  ELSE rest
             ELSE IF choice = "2"
             THEN IF account.holding > limit
                  THEN <<[account_id |-> account.id, action |-> "redeem",
                          amount |-> account.holding - limit]>> \o rest
                  ELSE rest
             ELSE <<[account_id |-> account.id, action |-> "redeem",
                     amount |-> account.holding]>> \o rest

\* a variant whose drain-all leaves the first tier invested
RECURSIVE plan_operations_drain_all_keeps_tier(_, _, _)
plan_operations_drain_all_keeps_tier(accounts, choice, limit) ==
    IF accounts = << >> THEN << >>
    ELSE LET account == Head(accounts)
             rest == plan_operations_drain_all_keeps_tier(Tail(accounts), choice, limit)
             can_deposit == Min(account.wallet, account.space_to_tier1)
         IN  IF choice = "1"
             THEN IF can_deposit >= MinSubscribe
                  THEN <<[account_id |-> account.id, action |-> "subscribe",
                          amount |-> can_deposit]>> \o rest
                  ELSE rest
             ELSE IF account.holding > limit
                  THEN <<[account_id |-> account.id, action |-> "redeem",
                          amount |-> account.holding - limit]>> \o rest
                  ELSE rest

\* lines 582-612: the operations computed for the selected accounts
RECURSIVE plan_operations(_, _, _)
plan_operations(accounts, choice, limit) ==
    IF accounts = << >> THEN << >>
    ELSE LET account == Head(accounts)
             rest == plan_operations(Tail(accounts), choice, limit)
             can_deposit == Min(account.wallet, account.space_to_tier1)
         IN  IF choice = "1"
             THEN IF can_deposit >= MinSubscribe
                  THEN <<[account_id |-> account.id, action |-> "subscribe",
                          amount |-> can_deposit]>> \o rest
                  ELSE rest
             ELSE IF choice = "2"
             THEN IF account.holding > limit
                  THEN <<[account_id |-> account.id, action |-> "redeem",
                          amount |-> account.holding - limit]>> \o rest
                  ELSE rest
             ELSE IF account.holding > 0
                  THEN <<[account_id |-> account.id, action |-> "redeem",
                          amount |-> account.holding]>> \o rest
                  ELSE rest

\* the planner returns None: savings_management_workflow returns False
Step3ReturnsNone(selected, op) ==
    /\ selected_accounts' = selected
    /\ op_choice' = op
    /\ operations' = << >>
    /\ plan_return' = "None"
    /\ pc' = "menu"

step3_user_selection ==
    /\ pc = "sav_step3"
    /\ LET all == valid_accounts(account_status, selected_product)
       IN  \E choice \in {Number(n) : n \in 0..Len(all) + 1} \cup {NotANumber},
              op \in {"1", "2", "3", "4"},
              confirm \in {"y", "n"} :
              IF selected_product.apyList = << >>
              THEN Step3ReturnsNone(<< >>, "")
              ELSE IF ~choice.valid \/ choice.value \notin 0..Len(all)
              THEN Step3ReturnsNone(<< >>, "")
              ELSE LET selected == IF choice.value = 0 THEN all
                                   ELSE <<all[choice.value]>>
                   IN  IF op \notin {"1", "2", "3"}
                       THEN Step3ReturnsNone(selected, "")
                       ELSE LET planned == plan_operations(selected, op,
                                               tier1_limit(selected_product))
                            IN  /\ selected_accounts' = selected
                                /\ op_choice' = op
                                /\ operations' = planned
                                /\ IF planned = << >>
                                   THEN plan_return' = "list" /\ pc' = "sav_step4"
                                   ELSE IF confirm # "y"
                                   THEN plan_return' = "None" /\ pc' = "menu"
                                   ELSE plan_return' = "list" /\ pc' = "sav_step4"
    /\ UNCHANGED <<direction_choice, transfer_mode, transfer_amount_per_account,
                   selection_line, requested_subs, auto_select>>
    /\ UNCHANGED <<cfgVars, regVars, snapVars, execVars, exchVars>>

(***************************************************************************)
(* The savings planner on every snapshot of a bounded set.                 *)
(***************************************************************************)
MaxSavingsSubs == 1     \* sub-accounts in the savings snapshot

HoldingValues == {0, Tier1Ceiling - Amt(0, 100000), Tier1Ceiling - Amt(0, 99999),
                  Tier1Ceiling, Tier1Ceiling + Amt(5, 0)}
WalletValues == {Amt(0, 99999), Amt(0, 100000), Amt(70, 0)}

SnapshotsOf(cfg, product) ==
    [accounts_with_keys(cfg) ->
        [subscribe_info : {[code |-> "00000"]},
         savings_result : {SavingsAnswer(product.productId, h) : h \in HoldingValues}
                              \cup {SavingsError},
         wallet_result : {WalletAnswer(w) : w \in WalletValues}
                              \cup {WalletEmptyAnswer, WalletError}]]

WithAccountInfo(cfg, snapshot) ==
    [k \in DOMAIN snapshot |->
        [account_info |-> cfg[k],
         subscribe_info |-> snapshot[k].subscribe_info,
         savings_result |-> snapshot[k].savings_result,
         wallet_result |-> snapshot[k].wallet_result]]

InitSavingsPlan ==
    /\ pc = "sav_step3"
    /\ config = ConfigWithSubs(MaxSavingsSubs)
    /\ selected_config_path = TRUE
    /\ config_file = "accounts"
    /\ update_thread = Ended("up_to_date")
    /\ subaccounts = << >>
    /\ needs_update = FALSE
    /\ before = config
    /\ runs = 0
    /\ selected_product \in Products
    /\ \E snapshot \in SnapshotsOf(config, selected_product) :
          account_status = WithAccountInfo(config, snapshot)
    /\ account_balances = << >>
    /\ final_account_status = << >>
    /\ report = NoReport
    /\ NoPlan
    /\ op_index = 0
    /\ trace = << >>
    /\ holding = << >>
    /\ wallet = << >>
    /\ faults = 0

NextSavingsPlan == step3_user_selection

SpecSavingsPlan == InitSavingsPlan /\ [][NextSavingsPlan]_vars

(***************************************************************************)
(* transfer_step2_user_selection.                                          *)
(***************************************************************************)
\* lines 979-984: the available balance, 0 when the query failed
available(balance_info) ==
    IF balance_info.wallet_result.code = "00000" /\ balance_info.wallet_result.data # << >>
    THEN balance_info.wallet_result.data[1].available
    ELSE 0

\* lines 973-994: main_balance and sub_accounts
main_balance(balances) ==
    LET ids == KeysInOrder(balances)
        mains == {n \in 1..Len(ids) : balances[ids[n]].account_info.type = "main"}
    IN  IF mains = {} THEN 0
        ELSE available(balances[ids[CHOOSE n \in mains : \A m \in mains : m <= n]])

sub_accounts(balances) ==
    LET ids == SelectSeq(KeysInOrder(balances),
                         LAMBDA k : balances[k].account_info.type # "main")
    IN  [n \in 1..Len(ids) |->
            [id |-> ids[n],
             uuid |-> balances[ids[n]].account_info.uuid,
             balance |-> available(balances[ids[n]])]]

\* a variant that keeps the indices in range and drops the others
parse_selection_skip_invalid(line, candidates) ==
    LET in_range(t) == t.valid /\ 1 <= t.value /\ t.value <= Len(candidates)
        kept == SelectSeq(line, in_range)
    IN  IF line = <<[valid |-> TRUE, value |-> 0]>>
        THEN [ok |-> TRUE, subs |-> candidates]
        ELSE [ok |-> TRUE, subs |-> [n \in 1..Len(kept) |-> candidates[kept[n].value]]]

\* lines 1037-1070 (and 1150-1183, 1224-1257): a selection line is '0', one
\* number, or several fields separated by commas; line is the sequence of
\* its fields
parse_selection(line, candidates) ==
    LET in_range(t) == t.valid /\ 1 <= t.value /\ t.value <= Len(candidates)
    IN  IF line = <<Number(0)>>
        THEN [ok |-> TRUE, subs |-> candidates]
        ELSE IF \A n \in 1..Len(line) : in_range(line[n])
        THEN [ok |-> TRUE, subs |-> [n \in 1..Len(line) |-> candidates[line[n].value]]]
        ELSE [ok |-> FALSE, subs |-> << >>]

\* lines 1104-1112
main_to_sub_operations(selected_subs, amount) ==
    [n \in 1..Len(selected_subs) |->
        [type |-> "main_to_sub", from_account |-> "main",
         to_account |-> selected_subs[n].id, uuid |-> selected_subs[n].uuid,
         amount |-> amount]]

\* lines 1186-1194: every selected sub-account returns its whole balance
drain_all_operations(selected_subs) ==
    [n \in 1..Len(selected_subs) |->
        [type |-> "sub_to_main", from_account |-> selected_subs[n].id,
         to_account |-> "main", uuid |-> selected_subs[n].uuid,
         amount |-> selected_subs[n].balance]]

\* lines 1260-1268: every selected sub-account returns the same amount
fixed_amount_operations(selected_subs, amount) ==
    [n \in 1..Len(selected_subs) |->
        [type |-> "sub_to_main", from_account |-> selected_subs[n].id,
         to_account |-> "main", uuid |-> selected_subs[n].uuid,
         amount |-> amount]]

\* a variant that offers one target more than the balance affords
max_accounts_rounded_up(balance, amount) == (balance + amount - 1) \div amount

\* line 1078: int(main_balance / transfer_amount_per_account)
max_accounts(balance, amount) == balance \div amount

\* the planner returns None: transfer_management_workflow returns False
TransferReturnsNone(direction, mode, amount, line, requested, auto) ==
    /\ direction_choice' = direction
    /\ transfer_mode' = mode
    /\ transfer_amount_per_account' = amount
    /\ selection_line' = line
    /\ requested_subs' = requested
    /\ auto_select' = auto
    /\ operations' = << >>
    /\ plan_return' = "None"
    /\ pc' = "menu"

\* a variant that goes on to the execution whatever the answer
TransferConfirm_any_answer(direction, mode, amount, line, requested, auto, planned) ==
    /\ direction_choice' = direction
    /\ transfer_mode' = mode
    /\ transfer_amount_per_account' = amount
    /\ selection_line' = line
    /\ requested_subs' = requested
    /\ auto_select' = auto
    /\ operations' = planned
    /\ \E confirm \in {"y", "n"} :
          /\ plan_return' = IF confirm = "y" THEN "list" ELSE "None"
          /\ pc' = "tr_step3"

\* lines 1274-1297: the plan is shown and confirmed
TransferConfirm(direction, mode, amount, line, requested, auto, planned) ==
    /\ direction_choice' = direction
    /\ transfer_mode' = mode
    /\ transfer_amount_per_account' = amount
    /\ selection_line' = line
    /\ requested_subs' = requested
    /\ auto_select' = auto
    /\ operations' = planned
    /\ IF planned = << >>
       THEN plan_return' = "list" /\ pc' = "tr_step3"
       ELSE \E confirm \in {"y", "n"} :
               IF confirm # "y"
               THEN plan_return' = "None" /\ pc' = "menu"
               ELSE plan_return' = "list" /\ pc' = "tr_step3"

\* lines 1022 and 1204: float() also accepts the text 'nan'; the value it
\* returns is written NaN here, and every comparison with it is false
NaN == 0 - 1
less_equal(a, b) == a # NaN /\ b # NaN /\ a <= b
greater(a, b) == a # NaN /\ b # NaN /\ a > b
greater_equal(a, b) == a # NaN /\ b # NaN /\ a >= b
times(a, n) == IF a = NaN THEN NaN ELSE a * n

MaxSubs == 2        \* sub-accounts in the transfer snapshot
MaxPicks == 3       \* fields in one selection line

\* what can be typed at the amount prompt
AmountLines == {Number(a) : a \in {0, Amt(3, 0), Amt(50, 0), NaN}} \cup {NotANumber}

\* what can be typed at a selection prompt showing n candidates
SelectionLines(n) ==
    LET fields == {Number(k) : k \in 0..n + 1} \cup {NotANumber}
    IN  UNION {[1..len -> fields] : len \in 1..MaxPicks}

\* lines 1012-1116: main account to sub-accounts
MainToSub(main, subs) ==
    IF main <= 0
    THEN TransferReturnsNone("1", "", 0, << >>, << >>, "")
    ELSE \E amount_input \in AmountLines :
        IF ~amount_input.valid \/ less_equal(amount_input.value, 0)
        THEN TransferReturnsNone("1", "", 0, << >>, << >>, "")
        ELSE \E target_choice \in SelectionLines(Len(subs)) :
            LET amount == amount_input.value
                parsed == parse_selection(target_choice, subs)
            IN  IF ~parsed.ok
                THEN TransferReturnsNone("1", "", amount, target_choice, << >>, "")
                ELSE IF greater(times(amount, Len(parsed.subs)), main)
                THEN IF max_accounts(main, amount) > 0
                     THEN \E answer \in {"y", "n"} :
                            IF answer = "y"
                            THEN TransferConfirm("1", "", amount, target_choice, parsed.subs, answer,
                                     main_to_sub_operations(
                                         SubSeq(parsed.subs, 1, max_accounts(main, amount)),
                                         amount))
                            ELSE TransferReturnsNone("1", "", amount, target_choice, parsed.subs, answer)
                     ELSE TransferReturnsNone("1", "", amount, target_choice, parsed.subs, "")
                ELSE TransferConfirm("1", "", amount, target_choice, parsed.subs, "",
                         main_to_sub_operations(parsed.subs, amount))

\* lines 1118-1272: sub-accounts back to the main account
SubToMain(subs) ==
    LET subs_with_balance == SelectSeq(subs, LAMBDA sub : sub.balance > 0)
    IN  IF subs_with_balance = << >>
        THEN TransferReturnsNone("2", "", 0, << >>, << >>, "")
        ELSE \E mode \in {"1", "2", "3"} :
            IF mode \notin {"1", "2"}
            THEN TransferReturnsNone("2", "", 0, << >>, << >>, "")
            ELSE IF mode = "1"
            THEN \E source_choice \in SelectionLines(Len(subs_with_balance)) :
                    LET parsed == parse_selection(source_choice, subs_with_balance)
                    IN  IF ~parsed.ok
                        THEN TransferReturnsNone("2", mode, 0, source_choice, << >>, "")
                        ELSE TransferConfirm("2", mode, 0, source_choice, parsed.subs, "",
                                 drain_all_operations(parsed.subs))
            ELSE \E amount_input \in AmountLines :
                    IF ~amount_input.valid \/ less_equal(amount_input.value, 0)
                    THEN TransferReturnsNone("2", mode, 0, << >>, << >>, "")
                    ELSE LET amount == amount_input.value
                             eligible_subs ==
                                 SelectSeq(subs_with_balance,
                                           LAMBDA sub : greater_equal(sub.balance, amount))
                         IN  IF eligible_subs = << >>
                             THEN TransferReturnsNone("2", mode, amount, << >>, << >>, "")
                             ELSE \E source_choice \in SelectionLines(Len(eligible_subs)) :
                                 LET parsed == parse_selection(source_choice, eligible_subs)
                                 IN  IF ~parsed.ok
                                     THEN TransferReturnsNone("2", mode, amount, source_choice, << >>, "")
                                     ELSE TransferConfirm("2", mode, amount, source_choice, parsed.subs, "",
                                              fixed_amount_operations(parsed.subs, amount))

transfer_step2_user_selection ==
    /\ pc = "tr_step2"
    /\ \E direction \in {"1", "2", "3"} :
          IF direction \notin {"1", "2"}
          THEN TransferReturnsNone("", "", 0, << >>, << >>, "")
          ELSE IF direction = "1"
          THEN MainToSub(main_balance(account_balances), sub_accounts(account_balances))
          ELSE SubToMain(sub_accounts(account_balances))
    /\ UNCHANGED <<selected_accounts, op_choice>>
    /\ UNCHANGED <<cfgVars, regVars, snapVars, execVars, exchVars>>

(***************************************************************************)
(* The transfer planner on every snapshot of a bounded set.                *)
(***************************************************************************)
MainBalanceValues == {0, Amt(2, 0), Amt(7, 0), Amt(100, 0)}
SubBalanceValues == {0, Amt(49, 999999), Amt(50, 0)}

BalanceSnapshotsOf(cfg) ==
    {[k \in accounts_with_keys(cfg) |->
         [account_info |-> cfg[k], wallet_result |-> answers[k]]] :
     answers \in {a \in [accounts_with_keys(cfg) ->
                           {WalletAnswer(w) : w \in MainBalanceValues \cup SubBalanceValues}
                               \cup {WalletEmptyAnswer, WalletError}] :
                     \A k \in accounts_with_keys(cfg) :
                        a[k].code = "00000" /\ a[k].data # << >> =>
                            a[k].data[1].available \in
                                IF cfg[k].type = "main" THEN MainBalanceValues
                                ELSE SubBalanceValues}}

InitTransferPlan ==
    /\ pc = "tr_step2"
    /\ config = ConfigWithSubs(MaxSubs)
    /\ selected_config_path = TRUE
    /\ config_file = "accounts"
    /\ update_thread = Ended("up_to_date")
    /\ subaccounts = << >>
    /\ needs_update = FALSE
    /\ before = config
    /\ runs = 0
    /\ selected_product = NoProduct
    /\ account_status = << >>
    /\ account_balances \in BalanceSnapshotsOf(config)
    /\ final_account_status = << >>
    /\ report = NoReport
    /\ NoPlan
    /\ op_index = 0
    /\ trace = << >>
    /\ holding = << >>
    /\ wallet = << >>
    /\ faults = 0

NextTransferPlan == transfer_step2_user_selection

SpecTransferPlan == InitTransferPlan /\ [][NextTransferPlan]_vars

(***************************************************************************)
(* The executors.  One step is one pass of the for loop: the gateway call, *)
(* the test of its result and the pause that follows.  The exchange moves  *)
(* the amount only when it answers with code 00000.                        *)
(***************************************************************************)
MaxOps == 3         \* operations in a plan
MaxFaults == 2      \* gateway calls that fail or raise in one workflow

GatewayOutcomes == {"success", "failure", "exception"}

\* what the exchange needs to accept a request
Funded(op) ==
    /\ op.amount # NaN
    /\ op.amount > 0
    /\ IF "action" \in DOMAIN op
       THEN IF op.action = "subscribe" THEN wallet[op.account_id] >= op.amount
            ELSE holding[op.account_id] >= op.amount
       ELSE wallet[op.from_account] >= op.amount

\* bitget_api.py savings_subscribe, savings_redeem and subaccount_transfer,
\* answered with code 00000
Settle(op) ==
    IF "action" \in DOMAIN op
    THEN IF op.action = "subscribe"
         THEN /\ wallet' = [wallet EXCEPT ![op.account_id] = @ - op.amount]
              /\ holding' = [holding EXCEPT ![op.account_id] = @ + op.amount]
         ELSE /\ wallet' = [wallet EXCEPT ![op.account_id] = @ + op.amount]
              /\ holding' = [holding EXCEPT ![op.account_id] = @ - op.amount]
    ELSE /\ wallet' = [wallet EXCEPT ![op.from_account] = @ - op.amount,
                                     ![op.to_account] = @ + op.amount]
         /\ holding' = holding

\* a variant that leaves the loop when the call raises
next_op_index_abort_on_exception(index, outcome, total_count) ==
    IF outcome = "exception" THEN total_count ELSE index + 1

\* lines 654 and 687-688 (1313 and 1361-1362): the except clause swallows
\* the exception and the for loop moves to the next operation
next_op_index(index, outcome, total_count) == index + 1

\* the gateway call of one pass, its outcome, and the pause at lines 683-685
\* (1357-1359), which the try block skips when the call raises
SendOperation(op, pause) ==
    \E outcome \in GatewayOutcomes :
        /\ outcome = "success" => Funded(op)
        \* an operation the account cannot fund is refused at any time; other
        \* failures are faults of the gateway, which are bounded
        /\ outcome # "success" =>
               (faults < MaxFaults \/ (outcome = "failure" /\ ~Funded(op)))
        /\ IF outcome = "success"
           THEN Settle(op) /\ faults' = faults
           ELSE /\ faults' = IF faults < MaxFaults THEN faults + 1 ELSE faults
                /\ UNCHANGED <<holding, wallet>>
        /\ trace' = trace
              \o <<[event |-> "call", index |-> op_index + 1, request |-> op,
                    outcome |-> outcome]>>
              \o IF outcome # "exception" /\ op_index + 1 < Len(operations)
                 THEN <<[event |-> "sleep", index |-> op_index + 1, seconds |-> pause]>>
                 ELSE << >>
        /\ op_index' = next_op_index(op_index, outcome, Len(operations))

\* lines 638-695; plan_operations writes no action but subscribe and redeem,
\* so the branch for an unknown action is never taken
step4_execute_operations ==
    /\ pc = "sav_step4"
    /\ IF op_index >= Len(operations)
       THEN pc' = "sav_step5" /\ UNCHANGED <<execVars, exchVars>>
       ELSE SendOperation(operations[op_index + 1], "0.2") /\ pc' = pc
    /\ UNCHANGED <<cfgVars, regVars, snapVars, planVars>>

\* get_main_account_uid, and the same lookup in bitget_api.py lines 266-275
\* and 301-307
main_account_uid(cfg) ==
    IF "main" \in DOMAIN cfg THEN cfg["main"].uuid ELSE Empty

\* lines 1300-1368; without a main uid the result is an error that no
\* request was sent for
transfer_step3_execute_operations ==
    /\ pc = "tr_step3"
    /\ IF op_index >= Len(operations)
       THEN pc' = "tr_step4" /\ UNCHANGED <<execVars, exchVars>>
       ELSE IF main_account_uid(config) = Empty
       THEN /\ trace' = trace
                  \o <<[event |-> "error", index |-> op_index + 1,
                        request |-> operations[op_index + 1], outcome |-> "failure"]>>
                  \o IF op_index + 1 < Len(operations)
                     THEN <<[event |-> "sleep", index |-> op_index + 1,
                             seconds |-> "0.3"]>>
                     ELSE << >>
            /\ op_index' = next_op_index(op_index, "failure", Len(operations))
            /\ pc' = pc
            /\ UNCHANGED exchVars
       ELSE SendOperation(operations[op_index + 1], "0.3") /\ pc' = pc
    /\ UNCHANGED <<cfgVars, regVars, snapVars, planVars>>

(***************************************************************************)
(* The executors on every plan of a bounded set, against an exchange that  *)
(* holds ExecutorFunds in every wallet and in every holding.               *)
(***************************************************************************)
ExecutorFunds == Amt(10, 0)
ExecutorAmount == Amt(6, 0)

SavingsOps(cfg) ==
    [account_id : accounts_with_keys(cfg), action : {"subscribe", "redeem"},
     amount : {ExecutorAmount}]

TransferOps(cfg) ==
    LET subs == accounts_with_keys(cfg) \ {"main"}
    IN  {[type |-> "main_to_sub", from_account |-> "main", to_account |-> k,
          uuid |-> cfg[k].uuid, amount |-> ExecutorAmount] : k \in subs}
        \cup
        {[type |-> "sub_to_main", from_account |-> k, to_account |-> "main",
          uuid |-> cfg[k].uuid, amount |-> ExecutorAmount] : k \in subs}

PlansOver(ops) == UNION {[1..len -> ops] : len \in 0..MaxOps}

InitExecutor ==
    /\ config = ConfigWithSubs(MaxSubs)
    /\ selected_config_path = TRUE
    /\ config_file = "accounts"
    /\ update_thread = Ended("up_to_date")
    /\ subaccounts = << >>
    /\ needs_update = FALSE
    /\ before = config
    /\ runs = 0
    /\ selected_product = Product("p1", <<Tier1Ceiling>>)
    /\ account_status = << >>
    /\ account_balances = << >>
    /\ final_account_status = << >>
    /\ report = NoReport
    /\ selected_accounts = << >>
    /\ op_choice = ""
    /\ direction_choice = ""
    /\ transfer_mode = ""
    /\ transfer_amount_per_account = 0
    /\ selection_line = << >>
    /\ requested_subs = << >>
    /\ auto_select = ""
    /\ plan_return = "list"
    /\ \/ pc = "sav_step4" /\ operations \in PlansOver(SavingsOps(config))
       \/ pc = "tr_step3" /\ operations \in PlansOver(TransferOps(config))
    /\ op_index = 0
    /\ trace = << >>
    /\ holding = [k \in accounts_with_keys(config) |-> ExecutorFunds]
    /\ wallet = [k \in accounts_with_keys(config) |-> ExecutorFunds]
    /\ faults = 0

NextExecutor ==
    \/ step4_execute_operations
    \/ transfer_step3_execute_operations

SpecExecutor == InitExecutor /\ [][NextExecutor]_vars

(***************************************************************************)
(* The savings workflow, from the menu to the final query.  A gateway call *)
(* answers with code 00000, answers with an error code, or raises: the     *)
(* request in make_bitget_request is not inside any try block.             *)
(***************************************************************************)
\* main(), choice '2': savings_management_workflow starts with fresh locals
\* and asks for the coin
savings_management_workflow ==
    /\ pc = "menu"
    /\ runs < MaxRuns
    /\ runs' = runs + 1
    /\ selected_product' = NoProduct
    /\ account_status' = << >>
    /\ final_account_status' = << >>
    /\ report' = NoReport
    /\ selected_accounts' = << >>
    /\ op_choice' = ""
    /\ operations' = << >>
    /\ plan_return' = ""
    /\ op_index' = 0
    /\ trace' = << >>
    /\ \/ pc' = "menu"              \* the coin is left empty
       \/ pc' = "sav_step1"
    /\ UNCHANGED <<account_balances, direction_choice, transfer_mode,
                   transfer_amount_per_account, selection_line, requested_subs,
                   auto_select>>
    /\ UNCHANGED <<cfgVars, subaccounts, needs_update, before, exchVars>>

\* an exception raised by requests leaves the handler, the workflow and
\* main(): none of them catches it
Raise(call) ==
    /\ faults < MaxFaults
    /\ faults' = faults + 1
    /\ trace' = Append(trace, [event |-> "raise", call |-> call])
    /\ pc' = "crashed"

\* config.get(...) on a config that is a list: an AttributeError that
\* nothing catches
AttributeError(call) ==
    /\ trace' = Append(trace, [event |-> "raise", call |-> call])
    /\ faults' = faults
    /\ pc' = "crashed"

MaxReasks == 1      \* invalid lines typed at a prompt that asks again

\* a prompt inside a 'while True' loop: every invalid line prints an error
\* and the prompt is shown again
asked_again(prompt, invalid_lines) ==
    [n \in 1..invalid_lines |-> [event |-> "prompt_again", prompt |-> prompt]]

\* a variant of the prompt that gives up the step at the first invalid line
asked_once(prompt, invalid_lines) == << >>

\* lines 324-390
step1_query_savings_products ==
    /\ pc = "sav_step1"
    /\ IF load_config(selected_config_path, config_file) = "None"
       THEN \* make_bitget_request finds no account config: code ERROR
            pc' = "menu" /\ UNCHANGED <<selected_product, trace, faults>>
       ELSE IF load_config(selected_config_path, config_file) = "list"
       THEN \* get_account_config, bitget_api.py line 130
            AttributeError("get_account_config") /\ UNCHANGED selected_product
       ELSE \/ Raise("get_savings_products") /\ UNCHANGED selected_product
            \/ /\ faults < MaxFaults        \* an error code
               /\ faults' = faults + 1
               /\ pc' = "menu"
               /\ UNCHANGED <<selected_product, trace>>
            \/ /\ pc' = "menu"              \* the list of products is empty
               /\ UNCHANGED <<selected_product, trace, faults>>
            \/ \* lines 372-385: the choice is asked until it is a number of
               \* the list, or the user interrupts
               \E invalid_choices \in 0..MaxReasks :
                  /\ trace' = trace \o asked_again("product", invalid_choices)
                  /\ \/ selected_product' \in Products /\ pc' = "sav_step2"
                     \/ UNCHANGED selected_product /\ pc' = "menu"
                  /\ UNCHANGED faults
    /\ UNCHANGED <<account_status, account_balances, final_account_status, report>>
    /\ UNCHANGED <<cfgVars, regVars, planVars, op_index, holding, wallet>>

\* the three reads of every account: TRUE where the read answers 00000
ReadOutcomes(accounts) ==
    [accounts -> [subscribe_info : BOOLEAN, savings_result : BOOLEAN,
                  wallet_result : BOOLEAN]]

FailedReads(reads) ==
    Cardinality({<<k, q>> \in (DOMAIN reads) \X
                     {"subscribe_info", "savings_result", "wallet_result"} :
                 ~reads[k][q]})

\* a variant that gives up the collection at the first account with a failed
\* read
collect_account_status_stop_at_failure(cfg, product, reads) ==
    LET ids == KeysInOrder(reads)
        failed(n) == ~(reads[ids[n]].subscribe_info /\ reads[ids[n]].savings_result
                       /\ reads[ids[n]].wallet_result)
        kept == {ids[n] : n \in {m \in 1..Len(ids) : \A j \in 1..m - 1 : ~failed(j)}}
    IN  [k \in kept |->
            [account_info |-> cfg[k],
             subscribe_info |-> [code |-> IF reads[k].subscribe_info THEN "00000"
                                          ELSE ErrorCode],
             savings_result |-> IF reads[k].savings_result
                                THEN SavingsAnswer(product.productId, holding[k])
                                ELSE SavingsError,
             wallet_result |-> IF reads[k].wallet_result
                               THEN WalletAnswer(wallet[k])
                               ELSE WalletError]]

\* lines 423-435: account_status as the exchange answers it
collect_account_status(cfg, product, reads) ==
    [k \in DOMAIN reads |->
        [account_info |-> cfg[k],
         subscribe_info |-> [code |-> IF reads[k].subscribe_info THEN "00000"
                                      ELSE ErrorCode],
         savings_result |-> IF reads[k].savings_result
                            THEN SavingsAnswer(product.productId, holding[k])
                            ELSE SavingsError,
         wallet_result |-> IF reads[k].wallet_result
                           THEN WalletAnswer(wallet[k])
                           ELSE WalletError]]

\* lines 393-475
step2_query_current_assets ==
    /\ pc = "sav_step2"
    /\ IF load_config(selected_config_path, config_file) = "list"
       THEN AttributeError("step2_query_current_assets") /\ UNCHANGED account_status
       ELSE IF \/ load_config(selected_config_path, config_file) = "None"
               \/ accounts_with_keys(config) = {}
       THEN pc' = "menu" /\ UNCHANGED <<account_status, trace, faults>>
       ELSE \/ \E call \in {"get_savings_subscribe_info", "get_savings_assets",
                            "get_spot_assets"} :
                  Raise(call) /\ UNCHANGED account_status
            \/ \E reads \in ReadOutcomes(accounts_with_keys(config)) :
                  /\ faults + FailedReads(reads) <= MaxFaults
                  /\ faults' = faults + FailedReads(reads)
                  /\ account_status' =
                         collect_account_status(config, selected_product, reads)
                  /\ pc' = "sav_step3"
                  /\ UNCHANGED trace
    /\ UNCHANGED <<selected_product, account_balances, final_account_status, report>>
    /\ UNCHANGED <<cfgVars, regVars, planVars, op_index, holding, wallet>>

(***************************************************************************)
(* The comparison and the tier analysis printed by step5_final_query.      *)
(***************************************************************************)
\* original_account_status.get(account_id, {}): an account without an entry
\* reads as an empty dict, whose results have no code
lookup(statuses, account_id) ==
    IF account_id \in DOMAIN statuses
    THEN [savings_result |-> statuses[account_id].savings_result,
          wallet_result |-> statuses[account_id].wallet_result]
    ELSE [savings_result |-> [code |-> "", data |-> [resultList |-> << >>]],
          wallet_result |-> [code |-> "", data |-> << >>]]

\* lines 818-826
get_account_holding(account_data, product_id) ==
    IF account_data.savings_result.code = "00000"
    THEN LET result_list == account_data.savings_result.data.resultList
             hits == {n \in 1..Len(result_list) : result_list[n].productId = product_id}
         IN  IF hits = {} THEN 0
             ELSE result_list[CHOOSE n \in hits : \A m \in hits : n <= m].holdAmount
    ELSE 0

\* lines 829-836
get_account_wallet(account_data) ==
    IF account_data.wallet_result.code = "00000" /\ account_data.wallet_result.data # << >>
    THEN account_data.wallet_result.data[1].available
    ELSE 0

Abs(x) == IF x < 0 THEN 0 - x ELSE x

\* 0.000001, the threshold of lines 749 and 771
ChangeThreshold == Amt(0, 1)

\* a variant that takes the threshold itself as no change
change_desc_threshold_included(holding_change) ==
    IF Abs(holding_change) <= ChangeThreshold THEN "unchanged"
    ELSE IF holding_change > 0 THEN "subscribed"
    ELSE "redeemed"

\* lines 749-754 (and 771-776 for the totals)
change_desc(holding_change) ==
    IF Abs(holding_change) < ChangeThreshold THEN "unchanged"
    ELSE IF holding_change > 0 THEN "subscribed"
    ELSE "redeemed"

\* lines 733-760: the line printed for one account of the final snapshot
report_row(original, final, product, account_id) ==
    LET before_data == lookup(original, account_id)
        after_data == lookup(final, account_id)
        before_holding == get_account_holding(before_data, product.productId)
        before_wallet == get_account_wallet(before_data)
        after_holding == get_account_holding(after_data, product.productId)
        after_wallet == get_account_wallet(after_data)
    IN  [id |-> account_id,
         before_holding |-> before_holding, before_wallet |-> before_wallet,
         after_holding |-> after_holding, after_wallet |-> after_wallet,
         holding_change |-> after_holding - before_holding,
         wallet_change |-> after_wallet - before_wallet,
         change_desc |-> change_desc(after_holding - before_holding)]

\* lines 763-766: the running totals
RECURSIVE accumulate(_, _)
accumulate(rows, field) ==
    IF rows = << >> THEN 0 ELSE rows[1][field] + accumulate(Tail(rows), field)

\* a variant that leaves the accounts without a change out of the totals
report_totals_changed_only(rows) ==
    LET changed == SelectSeq(rows, LAMBDA r : r.change_desc # "unchanged")
        total_before_holding == accumulate(changed, "before_holding")
        total_after_holding == accumulate(changed, "after_holding")
        total_before_wallet == accumulate(changed, "before_wallet")
        total_after_wallet == accumulate(changed, "after_wallet")
    IN  [before_holding |-> total_before_holding,
         before_wallet |-> total_before_wallet,
         after_holding |-> total_after_holding,
         after_wallet |-> total_after_wallet,
         holding_change |-> total_after_holding - total_before_holding,
         wallet_change |-> total_after_wallet - total_before_wallet,
         change_desc |-> change_desc(total_after_holding - total_before_holding)]

\* lines 728-731 and 762-778
report_totals(rows) ==
    LET total_before_holding == accumulate(rows, "before_holding")
        total_after_holding == accumulate(rows, "after_holding")
        total_before_wallet == accumulate(rows, "before_wallet")
        total_after_wallet == accumulate(rows, "after_wallet")
    IN  [before_holding |-> total_before_holding,
         before_wallet |-> total_before_wallet,
         after_holding |-> total_after_holding,
         after_wallet |-> total_after_wallet,
         holding_change |-> total_after_holding - total_before_holding,
         wallet_change |-> total_after_wallet - total_before_wallet,
         change_desc |-> change_desc(total_after_holding - total_before_holding)]

\* a variant without the branch for a product of one tier
tier_line_two_way(after_holding, product) ==
    IF after_holding > tier1_limit(product) /\ Len(product.apyList) > 1 THEN "tier2"
    ELSE IF after_holding > 0 /\ after_holding <= tier1_limit(product) THEN "tier1"
    ELSE "not_invested"

\* lines 789-806: the branch taken for one account; "over_tier1" is the
\* second branch, a single tier whose limit is exceeded
tier_line(after_holding, product) ==
    IF after_holding > tier1_limit(product) /\ Len(product.apyList) > 1 THEN "tier2"
    ELSE IF after_holding > tier1_limit(product) THEN "over_tier1"
    ELSE IF after_holding > 0 THEN "tier1"
    ELSE "not_invested"

\* lines 783-806: the branches and the two counters
tier_analysis(final, product) ==
    LET ids == KeysInOrder(final)
        lines == [n \in 1..Len(ids) |->
                    [id |-> ids[n],
                     line |-> tier_line(get_account_holding(lookup(final, ids[n]),
                                                            product.productId),
                                        product)]]
    IN  [tiers |-> lines,
         tier1_accounts |->
             Cardinality({n \in 1..Len(ids) : lines[n].line \in {"over_tier1", "tier1"}}),
         tier2_accounts |->
             Cardinality({n \in 1..Len(ids) : lines[n].line = "tier2"})]

\* lines 717-813
final_report(original, final, product) ==
    LET ids == KeysInOrder(final)
        rows == [n \in 1..Len(ids) |-> report_row(original, final, product, ids[n])]
        analysis == tier_analysis(final, product)
    IN  [rows |-> rows,
         totals |-> report_totals(rows),
         tiers |-> analysis.tiers,
         tier1_accounts |-> analysis.tier1_accounts,
         tier2_accounts |-> analysis.tier2_accounts]

\* lines 698-815: the assets are queried again and compared
step5_final_query ==
    /\ pc = "sav_step5"
    /\ IF load_config(selected_config_path, config_file) = "list"
       THEN AttributeError("step2_query_current_assets")
            /\ UNCHANGED <<final_account_status, report>>
       ELSE IF \/ load_config(selected_config_path, config_file) = "None"
               \/ accounts_with_keys(config) = {}
       THEN pc' = "menu" /\ UNCHANGED <<final_account_status, report, trace, faults>>
       ELSE \/ \E call \in {"get_savings_subscribe_info", "get_savings_assets",
                            "get_spot_assets"} :
                  Raise(call) /\ UNCHANGED <<final_account_status, report>>
            \/ \E reads \in ReadOutcomes(accounts_with_keys(config)) :
                  /\ faults + FailedReads(reads) <= MaxFaults
                  /\ faults' = faults + FailedReads(reads)
                  /\ final_account_status' =
                         collect_account_status(config, selected_product, reads)
                  /\ report' = final_report(
                         account_status,
                         collect_account_status(config, selected_product, reads),
                         selected_product)
                  /\ pc' = "menu"
                  /\ UNCHANGED trace
    /\ UNCHANGED <<selected_product, account_status, account_balances>>
    /\ UNCHANGED <<cfgVars, regVars, planVars, op_index, holding, wallet>>

InitSavings ==
    /\ pc = "menu"
    /\ config = ConfigWithSubs(MaxSavingsSubs)
    /\ selected_config_path \in BOOLEAN
    /\ config_file = "accounts"
    /\ update_thread = Ended("up_to_date")
    /\ subaccounts = << >>
    /\ needs_update = FALSE
    /\ before = config
    /\ runs = 0
    /\ selected_product = NoProduct
    /\ account_status = << >>
    /\ account_balances = << >>
    /\ final_account_status = << >>
    /\ report = NoReport
    /\ NoPlan
    /\ op_index = 0
    /\ trace = << >>
    /\ holding \in [accounts_with_keys(config) -> {0, Tier1Ceiling + Amt(5, 0)}]
    /\ wallet = [k \in accounts_with_keys(config) |-> Amt(70, 0)]
    /\ faults = 0

NextSavings ==
    \/ savings_management_workflow
    \/ step1_query_savings_products
    \/ step2_query_current_assets
    \/ step3_user_selection
    \/ step4_execute_operations
    \/ step5_final_query

SpecSavings == InitSavings /\ [][NextSavings]_vars

(***************************************************************************)
(* The final query on its own: step5_final_query entered with an original  *)
(* snapshot and an exchange whose holdings lie around the first tier's     *)
(* limit and around the threshold of "no change".  The config file is read *)
(* again by the query, so the accounts of the two snapshots may differ.    *)
(***************************************************************************)
ReportHoldingValues ==
    {0, Tier1Ceiling - Amt(0, 1), Tier1Ceiling, Tier1Ceiling + 5}
ReportWalletValues == {Amt(40, 0), Amt(70, 0)}

\* an original snapshot: the holding read for each account, or a failed read
original_snapshot(cfg, product, accounts, read_ok, held) ==
    [k \in accounts |->
        [account_info |-> cfg[k],
         subscribe_info |-> [code |-> "00000"],
         savings_result |-> IF read_ok[k] THEN SavingsAnswer(product.productId, held[k])
                            ELSE SavingsError,
         wallet_result |-> WalletAnswer(Amt(70, 0))]]

InitReport ==
    /\ pc = "sav_step5"
    /\ config \in {ConfigWithSubs(n) : n \in 0..MaxSavingsSubs}
    /\ selected_config_path = TRUE
    /\ config_file = "accounts"
    /\ update_thread = Ended("up_to_date")
    /\ subaccounts = << >>
    /\ needs_update = FALSE
    /\ before = config
    /\ runs = 0
    /\ selected_product \in Products
    /\ \E n \in 0..MaxSavingsSubs :
          LET cfg == ConfigWithSubs(n)
              accounts == accounts_with_keys(cfg)
          IN  \E read_ok \in [accounts -> BOOLEAN] :
              \E held \in [accounts -> ReportHoldingValues] :
                  /\ \A k \in accounts : ~read_ok[k] => held[k] = 0
                  /\ account_status =
                         original_snapshot(cfg, selected_product, accounts, read_ok, held)
    /\ account_balances = << >>
    /\ final_account_status = << >>
    /\ report = NoReport
    /\ NoPlan
    /\ op_index = 0
    /\ trace = << >>
    /\ holding \in [accounts_with_keys(config) -> ReportHoldingValues]
    /\ wallet \in [accounts_with_keys(config) -> ReportWalletValues]
    /\ faults = 0

NextReport == step5_final_query

SpecReport == InitReport /\ [][NextReport]_vars

(***************************************************************************)
(* The transfer workflow: transfer_management_workflow and its steps.      *)
(***************************************************************************)
\* main(), choice '3': lines 839-856, with ensure_main_account_uid (lines
\* 1447-1488), whose call of get_account_info is inside a try block
transfer_management_workflow ==
    /\ pc = "menu"
    /\ runs < MaxRuns
    /\ runs' = runs + 1
    /\ account_balances' = << >>
    /\ final_account_status' = << >>
    /\ direction_choice' = ""
    /\ transfer_mode' = ""
    /\ transfer_amount_per_account' = 0
    /\ selection_line' = << >>
    /\ requested_subs' = << >>
    /\ auto_select' = ""
    /\ operations' = << >>
    /\ plan_return' = ""
    /\ op_index' = 0
    /\ IF load_config(selected_config_path, config_file) = "None"
       THEN pc' = "menu" /\ trace' = << >> /\ UNCHANGED <<config, faults>>
       ELSE IF load_config(selected_config_path, config_file) = "list"
       THEN /\ trace' = <<[event |-> "raise", call |-> "ensure_main_account_uid"]>>
            /\ pc' = "crashed"
            /\ UNCHANGED <<config, faults>>
       ELSE IF main_account_uid(config) = Empty
       THEN \/ \* get_account_info answers with the userId, which is saved
               /\ config' = [config EXCEPT !["main"].uuid = <<1>>]
               /\ trace' = << >>
               /\ UNCHANGED faults
               /\ \/ pc' = "menu"           \* the coin is left empty
                  \/ pc' = "tr_step1"
            \/ \* it answers with an error code or raises
               /\ faults < MaxFaults
               /\ faults' = faults + 1
               /\ trace' = << >>
               /\ pc' = "menu"
               /\ UNCHANGED config
       ELSE /\ trace' = << >>
            /\ UNCHANGED <<config, faults>>
            /\ \/ pc' = "menu"              \* the coin is left empty
               \/ pc' = "tr_step1"
    /\ UNCHANGED <<selected_config_path, config_file, update_thread, subaccounts, needs_update,
                 before>>
    /\ UNCHANGED <<selected_product, account_status, report, selected_accounts,
                   op_choice, holding, wallet>>

\* lines 903-916: account_balances as the exchange answers it
collect_account_balances(cfg, reads) ==
    [k \in DOMAIN reads |->
        [account_info |-> cfg[k],
         wallet_result |-> IF reads[k] THEN WalletAnswer(wallet[k]) ELSE WalletError]]

\* lines 881-965, called by the workflow and again by
\* transfer_step4_final_query
QueryBalances(next_pc) ==
    IF load_config(selected_config_path, config_file) = "list"
    THEN /\ AttributeError("transfer_step1_query_balances")
         /\ UNCHANGED <<account_balances, final_account_status>>
    ELSE IF \/ load_config(selected_config_path, config_file) = "None"
            \/ accounts_with_keys(config) = {}
    THEN /\ pc' = "menu"
         /\ UNCHANGED <<account_balances, final_account_status, trace, faults>>
    ELSE \/ Raise("get_spot_assets") /\ UNCHANGED <<account_balances, final_account_status>>
         \/ \E reads \in [accounts_with_keys(config) -> BOOLEAN] :
               LET failed == Cardinality({k \in DOMAIN reads : ~reads[k]})
               IN  /\ faults + failed <= MaxFaults
                   /\ faults' = faults + failed
                   /\ IF next_pc = "tr_step2"
                      THEN /\ account_balances' = collect_account_balances(config, reads)
                           /\ UNCHANGED final_account_status
                      ELSE /\ final_account_status' =
                                  collect_account_balances(config, reads)
                           /\ UNCHANGED account_balances
                   /\ pc' = next_pc
                   /\ UNCHANGED trace

transfer_step1_query_balances ==
    /\ pc = "tr_step1"
    /\ QueryBalances("tr_step2")
    /\ UNCHANGED <<selected_product, account_status, report>>
    /\ UNCHANGED <<cfgVars, regVars, planVars, op_index, holding, wallet>>

\* lines 1370-1432: the balances are queried again and compared
transfer_step4_final_query ==
    /\ pc = "tr_step4"
    /\ QueryBalances("menu")
    /\ UNCHANGED <<selected_product, account_status, report>>
    /\ UNCHANGED <<cfgVars, regVars, planVars, op_index, holding, wallet>>

(***************************************************************************)
(* The two workflows behind the menu of main(), on a config file of every  *)
(* kind.                                                                   *)
(***************************************************************************)
InitWorkflows ==
    /\ pc = "menu"
    /\ config = ConfigWithSubs(MaxSavingsSubs)
    /\ selected_config_path \in BOOLEAN
    /\ config_file \in ConfigFiles
    /\ update_thread = Ended("up_to_date")
    /\ subaccounts = << >>
    /\ needs_update = FALSE
    /\ before = config
    /\ runs = MaxRuns - 1      \* one workflow is run
    /\ selected_product = NoProduct
    /\ account_status = << >>
    /\ account_balances = << >>
    /\ final_account_status = << >>
    /\ report = NoReport
    /\ NoPlan
    /\ op_index = 0
    /\ trace = << >>
    /\ holding \in [accounts_with_keys(config) -> {0, Tier1Ceiling + Amt(5, 0)}]
    /\ wallet = [k \in accounts_with_keys(config) |-> Amt(70, 0)]
    /\ faults = 0

NextWorkflows ==
    \/ savings_management_workflow
    \/ step1_query_savings_products
    \/ step2_query_current_assets
    \/ step3_user_selection
    \/ step4_execute_operations
    \/ step5_final_query
    \/ transfer_management_workflow
    \/ transfer_step1_query_balances
    \/ transfer_step2_user_selection
    \/ transfer_step3_execute_operations
    \/ transfer_step4_final_query

SpecWorkflows == InitWorkflows /\ [][NextWorkflows]_vars

(***************************************************************************)
(* main() from its first line: the update check is started, then the menu  *)
(* loop serves the workflows while the thread of the check runs beside it. *)
(***************************************************************************)
\* a variant of the worker whose exceptions reach the control thread
worker_without_try ==
    /\ update_thread = Running
    /\ pc # "crashed"
    /\ \E outcome \in CheckOutcomes :
          /\ update_thread' = Ended(outcome)
          /\ pc' = IF outcome \in {"RequestException", "Exception", "not_a_dict"}
                   THEN "crashed" ELSE pc
    /\ UNCHANGED <<config, selected_config_path, config_file>>
    /\ UNCHANGED <<regVars, snapVars, planVars, execVars, exchVars>>

\* version_checker.py lines 118-121: the worker of the thread, from the
\* request to the callback.  It may never be scheduled to its end (a request
\* that does not return); the daemon thread ends with the process
worker ==
    /\ update_thread = Running
    /\ pc # "crashed"
    /\ \E outcome \in CheckOutcomes : update_thread' = Ended(outcome)
    /\ UNCHANGED <<pc, config, selected_config_path, config_file>>
    /\ UNCHANGED <<regVars, snapVars, planVars, execVars, exchVars>>

\* bg_flex_manager_cli.py lines 1514-1515 and version_checker.py lines
\* 146-154: the checker is built, the thread is started and main() goes on
\* to the menu
check_for_updates ==
    /\ pc = "start"
    /\ update_thread = NotStarted
    /\ update_thread' = Running
    /\ pc' = "menu"
    /\ UNCHANGED <<config, selected_config_path, config_file>>
    /\ UNCHANGED <<regVars, snapVars, planVars, execVars, exchVars>>

InitTelemetry ==
    /\ pc = "start"
    /\ config = ConfigWithSubs(MaxSavingsSubs)
    /\ selected_config_path = TRUE
    /\ config_file \in {"accounts", "missing"}
    /\ update_thread = NotStarted
    /\ subaccounts = << >>
    /\ needs_update = FALSE
    /\ before = config
    /\ runs = MaxRuns - 1      \* one workflow is run
    /\ selected_product = NoProduct
    /\ account_status = << >>
    /\ account_balances = << >>
    /\ final_account_status = << >>
    /\ report = NoReport
    /\ NoPlan
    /\ op_index = 0
    /\ trace = << >>
    /\ holding = [k \in accounts_with_keys(config) |-> Tier1Ceiling + Amt(5, 0)]
    /\ wallet = [k \in accounts_with_keys(config) |-> Amt(70, 0)]
    /\ faults = MaxFaults     \* the gateway answers every call

\* the steps of the control thread
MainThread ==
    \/ check_for_updates
    \/ savings_management_workflow
    \/ step1_query_savings_products
    \/ step2_query_current_assets
    \/ step3_user_selection
    \/ step4_execute_operations
    \/ step5_final_query
    \/ transfer_management_workflow
    \/ transfer_step1_query_balances
    \/ transfer_step2_user_selection
    \/ transfer_step3_execute_operations
    \/ transfer_step4_final_query

NextTelemetry ==
    \/ MainThread
    \/ worker

SpecTelemetry == InitTelemetry /\ [][NextTelemetry]_vars

\* the control thread runs whenever it has a step to take (the user answers
\* the prompts); nothing is assumed about the thread of the update check
FairSpecTelemetry == SpecTelemetry /\ WF_vars(MainThread)

(***************************************************************************)
(* The snapshot collection of step2_query_current_assets thread by thread. *)
(* For each account the control thread opens a pool of three workers,       *)
(* submits the three reads, and leaves the 'with' block when the three      *)
(* futures are done.  The trace records each submission and each            *)
(* completion, so a future is in flight from its "submit" entry to its      *)
(* "done" entry.                                                            *)
(***************************************************************************)
\* lines 428-430, in the order of submission
ReadCalls == <<"get_savings_subscribe_info", "get_savings_assets", "get_spot_assets">>

\* lines 408-413 and 423: the accounts in the order of the file
accounts_in_order(cfg) ==
    SelectSeq(<<"main">> \o SlotNames, LAMBDA k : k \in accounts_with_keys(cfg))

submitted(tr, account_id, call) ==
    \E n \in 1..Len(tr) : /\ tr[n].event = "submit"
                          /\ tr[n].account_id = account_id
                          /\ tr[n].call = call

done(tr, account_id, call) ==
    \E n \in 1..Len(tr) : /\ tr[n].event = "done"
                          /\ tr[n].account_id = account_id
                          /\ tr[n].call = call

done_entry(tr, account_id, call) ==
    tr[CHOOSE n \in 1..Len(tr) : /\ tr[n].event = "done"
                                 /\ tr[n].account_id = account_id
                                 /\ tr[n].call = call]

\* what the gateway answers to a read of one account
gateway_read(call, account_id, product, answered) ==
    IF call = "get_savings_subscribe_info"
    THEN [code |-> IF answered THEN "00000" ELSE ErrorCode]
    ELSE IF call = "get_savings_assets"
    THEN (IF answered THEN SavingsAnswer(product.productId, holding[account_id])
          ELSE SavingsError)
    ELSE (IF answered THEN WalletAnswer(wallet[account_id]) ELSE WalletError)

Pending == [code |-> "pending"]

\* future.result(): the value the worker returned
future_result(tr, account_id, call) ==
    IF done(tr, account_id, call) THEN done_entry(tr, account_id, call).result
    ELSE Pending

\* a variant of the 'with' block that waits for the first future only
joined_first_future(tr, account_id) == done(tr, account_id, ReadCalls[1])

\* lines 433-435 and the end of the 'with' block: result() blocks until its
\* future is done, and shutdown(wait=True) until all of them are
joined(tr, account_id) == \A n \in 1..Len(ReadCalls) : done(tr, account_id, ReadCalls[n])

\* the account of the current pass of the loop at line 423
current_account(cfg, statuses) ==
    LET order == accounts_in_order(cfg)
    IN  order[CHOOSE n \in 1..Len(order) :
                 /\ order[n] \notin DOMAIN statuses
                 /\ \A m \in 1..(n - 1) : order[m] \in DOMAIN statuses]

\* lines 428-430: executor.submit, one call of the control thread
step2_submit ==
    /\ pc = "sav_step2_with"
    /\ LET account_id == current_account(config, account_status)
           waiting == {n \in 1..Len(ReadCalls) :
                          ~submitted(trace, account_id, ReadCalls[n])}
       IN  /\ waiting # {}
           /\ trace' = Append(trace,
                  [event |-> "submit", account_id |-> account_id,
                   call |-> ReadCalls[CHOOSE n \in waiting : \A m \in waiting : n <= m]])
    /\ UNCHANGED <<pc, faults, snapVars>>
    /\ UNCHANGED <<cfgVars, regVars, planVars, op_index, holding, wallet>>

\* a worker of the pool runs one submitted read to its end: the gateway
\* answers, answers with an error code, or the request raises
step2_worker ==
    /\ pc = "sav_step2_with"
    /\ \E account_id \in accounts_with_keys(config), n \in 1..Len(ReadCalls) :
          /\ submitted(trace, account_id, ReadCalls[n])
          /\ ~done(trace, account_id, ReadCalls[n])
          /\ \E outcome \in {"success", "failure", "exception"} :
                /\ outcome # "success" => faults < MaxFaults
                /\ faults' = IF outcome = "success" THEN faults ELSE faults + 1
                /\ trace' = Append(trace,
                       [event |-> "done", account_id |-> account_id,
                        call |-> ReadCalls[n], outcome |-> outcome,
                        result |-> IF outcome = "exception" THEN Pending
                                   ELSE gateway_read(ReadCalls[n], account_id,
                                                     selected_product,
                                                     outcome = "success")])
    /\ UNCHANGED <<pc, snapVars>>
    /\ UNCHANGED <<cfgVars, regVars, planVars, op_index, holding, wallet>>

\* lines 433-443: the results are taken, the pool is shut down and the entry
\* of the account is recorded; result() raises what its worker raised
step2_join ==
    /\ pc = "sav_step2_with"
    /\ LET account_id == current_account(config, account_status)
           order == accounts_in_order(config)
       IN  /\ \A n \in 1..Len(ReadCalls) : submitted(trace, account_id, ReadCalls[n])
           /\ joined(trace, account_id)
           /\ IF \E n \in 1..Len(ReadCalls) :
                    /\ done(trace, account_id, ReadCalls[n])
                    /\ done_entry(trace, account_id, ReadCalls[n]).outcome = "exception"
              THEN /\ pc' = "crashed"
                   /\ UNCHANGED account_status
              ELSE /\ account_status' =
                        [k \in DOMAIN account_status \cup {account_id} |->
                            IF k = account_id
                            THEN [account_info |-> config[k],
                                  subscribe_info |->
                                      future_result(trace, k, ReadCalls[1]),
                                  savings_result |->
                                      future_result(trace, k, ReadCalls[2]),
                                  wallet_result |->
                                      future_result(trace, k, ReadCalls[3])]
                            ELSE account_status[k]]
                   /\ pc' = IF account_id = order[Len(order)] THEN "sav_step3"
                            ELSE "sav_step2_with"
    /\ UNCHANGED <<selected_product, account_balances, final_account_status, report>>
    /\ UNCHANGED <<trace, faults>>
    /\ UNCHANGED <<cfgVars, regVars, planVars, op_index, holding, wallet>>

\* step 2 entered with a product and a config of accounts with keys, against
\* an exchange where the accounts hold different amounts
InitFanOut ==
    /\ pc = "sav_step2_with"
    /\ config = ConfigWithSubs(MaxSavingsSubs)
    /\ selected_config_path = TRUE
    /\ config_file = "accounts"
    /\ update_thread = Ended("up_to_date")
    /\ subaccounts = << >>
    /\ needs_update = FALSE
    /\ before = config
    /\ runs = 0
    /\ selected_product \in Products
    /\ account_status = << >>
    /\ account_balances = << >>
    /\ final_account_status = << >>
    /\ report = NoReport
    /\ NoPlan
    /\ op_index = 0
    /\ trace = << >>
    /\ holding = [k \in accounts_with_keys(config) |->
                     IF k = "main" THEN 0 ELSE Amt(SlotNo(k), 0)]
    /\ wallet = [k \in accounts_with_keys(config) |->
                    IF k = "main" THEN Amt(70, 0) ELSE Amt(70 - SlotNo(k), 0)]
    /\ faults = 0

NextFanOut ==
    \/ step2_submit
    \/ step2_worker
    \/ step2_join

SpecFanOut == InitFanOut /\ [][NextFanOut]_vars

(***************************************************************************)
(* Properties of the registry synchronisation.                             *)
(***************************************************************************)
\* the handler has just rewritten the config from the list in subaccounts
Updated == pc = "init_step2" /\ needs_update

Reorderings(s) ==
    {p \in [1..Len(s) -> Range(s)] : \A i, j \in 1..Len(s) : i # j => p[i] # p[j]}

SubSlots(cfg) == {k \in DOMAIN cfg : cfg[k].type = "sub"}

\* C5: slot assignment does not depend on the order of the exchange list:
\* every permutation of the list gives the same needs_update answer and the
\* same config, in which slot i holds the i-th smallest numeric uid of the list.
SlotAssignmentOrderIndependent ==
    pc = "init_step2" =>
        \A p \in Reorderings(subaccounts) :
            /\ check_config_needs_update(before, p) = needs_update
            /\ needs_update =>
                  /\ update_config_with_subaccounts(before, p) = config
                  /\ \A i \in 1..Min(Len(p), TARGET_SUBACCOUNT_COUNT) :
                        config[str(i)].uuid = sorted(p)[i]

Credentials(e) == <<e.apikey, e.secret, e.passphrase>>

\* C6: after an update every slot whose uid was known before carries the
\* credentials stored for that uid, and every slot with a new uid carries
\* empty credentials.
CredentialsFollowUid ==
    Updated =>
        \A k \in SubSlots(config) :
            LET known == {j \in SubSlots(before) : before[j].uuid = config[k].uuid}
            IN  IF known # {}
                THEN \E j \in known : Credentials(config[k]) = Credentials(before[j])
                ELSE Credentials(config[k]) = <<Empty, Empty, Empty>>

\* C6 witness: an update moved a uid with credentials to another slot and
\* gave a new uid an empty slot.
CredentialsFollowUidWitness ==
    /\ Updated
    /\ \E k \in SubSlots(config), j \in SubSlots(before) :
          /\ j # k
          /\ before[j].uuid = config[k].uuid
          /\ before[j].apikey # Empty
          /\ Credentials(config[k]) = Credentials(before[j])
          /\ k \in SubSlots(before) /\ Credentials(before[k]) # Credentials(before[j])
    /\ \E k \in SubSlots(config) :
          /\ \A j \in SubSlots(before) : before[j].uuid # config[k].uuid
          /\ config[k].apikey = Empty

\* C7: after an update the sub-account slots are exactly 1..N, N being the
\* number of sub-accounts taken from the list, and every slot's uid is on the
\* exchange.
SlotsContiguous ==
    Updated =>
        /\ SubSlots(config) =
              {str(i) : i \in 1..Min(Len(subaccounts), TARGET_SUBACCOUNT_COUNT)}
        /\ \A k \in SubSlots(config) : config[k].uuid \in Range(subaccounts)

\* the condition C8 states, on the ascending-uid ordering of the exchange list
NeedsUpdateAsStated(cfg, subs) ==
    LET n == Min(Len(subs), TARGET_SUBACCOUNT_COUNT)
    IN  \/ Cardinality(SubSlots(cfg)) # n
        \/ \E i \in 1..n : str(i) \notin SubSlots(cfg) \/ cfg[str(i)].uuid # sorted(subs)[i]

\* C8: needs_update is true exactly when the number of local sub-accounts
\* differs from min(len(list), target) or some position of the ascending-uid
\* ordering of the list does not match the local slot at that position.
NeedsUpdateIffMismatch ==
    pc = "init_step2" => (needs_update <=> NeedsUpdateAsStated(before, subaccounts))

(***************************************************************************)
(* Properties of the savings planner.                                      *)
(***************************************************************************)
\* the snapshot of an account as the planner is specified to read it
SnapshotHolding(k) ==
    LET r == account_status[k].savings_result
    IN  IF r.code = "00000" /\ r.data.resultList # << >>
        THEN r.data.resultList[1].holdAmount ELSE 0
SnapshotWallet(k) ==
    LET r == account_status[k].wallet_result
    IN  IF r.code = "00000" /\ r.data # << >> THEN r.data[1].available ELSE 0
SnapshotCeiling == selected_product.apyList[1].maxStepVal

FillDeposit(k) == Min(SnapshotWallet(k), Max(0, SnapshotCeiling - SnapshotHolding(k)))

SelectedIds == {selected_accounts[n].id : n \in 1..Len(selected_accounts)}
OperationsOf(k) == {n \in 1..Len(operations) : operations[n].account_id = k}

\* C1: in a fill-to-tier-1 plan a selected account has a Subscribe, for exactly
\* deposit = min(wallet, max(0, ceiling - holding)), if and only if
\* deposit >= 0.1; otherwise it has no operation.
FillPlanIffMinimum ==
    op_choice = "1" =>
        /\ \A k \in SelectedIds :
              IF FillDeposit(k) >= Amt(0, 100000)
              THEN /\ Cardinality(OperationsOf(k)) = 1
                   /\ \A n \in OperationsOf(k) :
                         /\ operations[n].action = "subscribe"
                         /\ operations[n].amount = FillDeposit(k)
              ELSE OperationsOf(k) = {}
        /\ \A n \in 1..Len(operations) : operations[n].account_id \in SelectedIds

\* C1 witness: a deposit of exactly 0.1 is planned and a deposit of 0.099999
\* is skipped in the same plan.
FillPlanIffMinimumWitness ==
    /\ op_choice = "1"
    /\ \E k \in SelectedIds :
          FillDeposit(k) = Amt(0, 100000) /\ OperationsOf(k) # {}
    /\ \E k \in SelectedIds :
          FillDeposit(k) = Amt(0, 99999) /\ OperationsOf(k) = {}

\* C2: a planned subscribe amount never exceeds the account's wallet nor
\* the room left under the tier-1 ceiling.
FillAmountBound ==
    op_choice = "1" =>
        \A n \in 1..Len(operations) :
            /\ operations[n].amount <= SnapshotWallet(operations[n].account_id)
            /\ operations[n].amount <=
                  SnapshotCeiling - SnapshotHolding(operations[n].account_id)

\* C2 witness: one subscribe is limited by the wallet, another by the room
\* left under the ceiling.
FillAmountBoundWitness ==
    /\ op_choice = "1"
    /\ \E n \in 1..Len(operations) :
          LET k == operations[n].account_id
          IN  /\ operations[n].amount = SnapshotWallet(k)
              /\ SnapshotWallet(k) < SnapshotCeiling - SnapshotHolding(k)
    /\ \E n \in 1..Len(operations) :
          LET k == operations[n].account_id
          IN  /\ operations[n].amount = SnapshotCeiling - SnapshotHolding(k)
              /\ SnapshotWallet(k) > SnapshotCeiling - SnapshotHolding(k)


\* C13: in a drain-to-tier-1 plan a selected account has a Redeem if and only
\* if its holding is strictly greater than the tier-1 ceiling, for exactly
\* holding - ceiling; an account at or below the ceiling has no operation.
DrainToTierPlan ==
    op_choice = "2" =>
        /\ \A k \in SelectedIds :
              IF SnapshotHolding(k) > SnapshotCeiling
              THEN /\ Cardinality(OperationsOf(k)) = 1
                   /\ \A n \in OperationsOf(k) :
                         /\ operations[n].action = "redeem"
                         /\ operations[n].amount = SnapshotHolding(k) - SnapshotCeiling
              ELSE OperationsOf(k) = {}
        /\ \A n \in 1..Len(operations) : operations[n].account_id \in SelectedIds

\* one selected account above the ceiling is redeemed down to it, another
\* exactly at the ceiling is left alone
DrainToTierPlanWitness ==
    /\ op_choice = "2"
    /\ \E k \in SelectedIds :
          SnapshotHolding(k) > SnapshotCeiling /\ OperationsOf(k) # {}
    /\ \E k \in SelectedIds :
          SnapshotHolding(k) = SnapshotCeiling /\ OperationsOf(k) = {}

\* C14: in a drain-all plan a selected account has a Redeem if and only if
\* its holding is strictly greater than 0, for exactly its holding; when no
\* selected account qualifies the planner returns the empty plan, a list and
\* not the None of a cancellation.
DrainAllPlan ==
    op_choice = "3" =>
        /\ \A k \in SelectedIds :
              IF SnapshotHolding(k) > 0
              THEN /\ Cardinality(OperationsOf(k)) = 1
                   /\ \A n \in OperationsOf(k) :
                         /\ operations[n].action = "redeem"
                         /\ operations[n].amount = SnapshotHolding(k)
              ELSE OperationsOf(k) = {}
        /\ \A n \in 1..Len(operations) : operations[n].account_id \in SelectedIds
        /\ (\A k \in SelectedIds : SnapshotHolding(k) = 0) =>
               operations = << >> /\ plan_return = "list" /\ pc = "sav_step4"

\* two selected accounts without any holding, one of them because its query
\* failed: the plan is empty and is returned as a list
DrainAllPlanWitness ==
    /\ op_choice = "3"
    /\ Len(selected_accounts) = 2
    /\ \A k \in SelectedIds : SnapshotHolding(k) = 0
    /\ \E k \in SelectedIds : account_status[k].savings_result.code # "00000"
    /\ operations = << >>
    /\ plan_return = "list"

(***************************************************************************)
(* Properties of the transfer planner.                                     *)
(***************************************************************************)
SnapshotMainBalance == main_balance(account_balances)

\* the planner asked for more than the main account holds
Overflow ==
    /\ pc # "tr_step2"
    /\ direction_choice = "1"
    /\ transfer_amount_per_account # NaN
    /\ transfer_amount_per_account * Len(requested_subs) > SnapshotMainBalance

\* floor(main_available / per_account_amount), as the largest count whose
\* total still fits the balance
MaxAffordableTargets ==
    CHOOSE k \in 0..Len(requested_subs) :
        /\ k * transfer_amount_per_account <= SnapshotMainBalance
        /\ (k + 1) * transfer_amount_per_account > SnapshotMainBalance

FirstTargets(k) ==
    /\ Len(operations) = k
    /\ \A n \in 1..k :
          /\ operations[n].type = "main_to_sub"
          /\ operations[n].from_account = "main"
          /\ operations[n].to_account = requested_subs[n].id
          /\ operations[n].uuid = requested_subs[n].uuid
          /\ operations[n].amount = transfer_amount_per_account

\* C3: when per-account amount times the number of selected targets exceeds
\* the main balance, the planner offers exactly the first
\* floor(balance / amount) selected targets, in selection order, each for the
\* unchanged amount, provided that count is at least 1; the plan is that
\* reduced plan when the offer is accepted and nothing when it is declined;
\* when the count is 0 planning fails with no operations and no offer.
OverflowTruncation ==
    Overflow =>
        IF MaxAffordableTargets >= 1
        THEN /\ auto_select \in {"y", "n"}
             /\ auto_select = "y" => FirstTargets(MaxAffordableTargets)
             /\ auto_select = "n" => operations = << >> /\ plan_return = "None"
        ELSE auto_select = "" /\ operations = << >> /\ plan_return = "None"

\* an accepted reduced plan of two targets, the first of them picked second
\* in the listing
OverflowTruncationWitness ==
    /\ Overflow
    /\ MaxAffordableTargets = 2
    /\ Len(requested_subs) = 3
    /\ requested_subs[1].id = "2"
    /\ auto_select = "y"
    /\ plan_return = "list"
    /\ Len(operations) = 2

RECURSIVE PlanTotal(_)
PlanTotal(ops) ==
    IF ops = << >> THEN 0
    ELSE IF Head(ops).amount = NaN \/ PlanTotal(Tail(ops)) = NaN THEN NaN
    ELSE Head(ops).amount + PlanTotal(Tail(ops))

\* C4: every main-to-sub plan the planner returns has a total, summed over
\* its operations, that is less than or equal to the main balance of the
\* snapshot.
MainToSubWithinBudget ==
    (pc = "tr_step3" /\ direction_choice = "1" /\ plan_return = "list") =>
        less_equal(PlanTotal(operations), SnapshotMainBalance)


(***************************************************************************)
(* Properties of the executors.                                            *)
(***************************************************************************)
Executing == pc \in {"sav_step4", "tr_step3"}
ExecutorReturned == pc \in {"sav_step5", "tr_step4"}
Attempts == SelectSeq(trace, LAMBDA e : e.event \in {"call", "error"})

\* C9: the executor attempts every operation of the plan exactly once, in
\* plan order; an operation whose call fails or raises is recorded and the
\* later operations are still attempted; no operation is sent twice.
ExecutorSequencing ==
    (Executing \/ ExecutorReturned) =>
        /\ Len(Attempts) = op_index
        /\ Len(Attempts) <= Len(operations)
        /\ \A n \in 1..Len(Attempts) :
              Attempts[n].index = n /\ Attempts[n].request = operations[n]
        /\ ExecutorReturned => Len(Attempts) = Len(operations)

\* a plan of three whose first call raised and whose second was refused,
\* with the third sent all the same
ExecutorSequencingWitness ==
    /\ ExecutorReturned
    /\ Len(operations) = 3
    /\ Len(Attempts) = 3
    /\ Attempts[1].outcome = "exception"
    /\ Attempts[2].outcome = "failure"
    /\ Attempts[3].outcome = "success"


(***************************************************************************)
(* Properties of the savings workflow.                                     *)
(***************************************************************************)
\* C10: an exception raised by a gateway call is caught and handled like an
\* error code: it never leaves the workflow, so the process is never ended
\* by one.
TransportFailureNeverFatal == pc # "crashed"


(***************************************************************************)
(* Properties of the snapshot collection and of what reads it.             *)
(***************************************************************************)
SavingsFailed(statuses, k) == statuses[k].savings_result.code # "00000"
WalletFailed(statuses, k) == statuses[k].wallet_result.code # "00000"

\* C11: a query answered with an error code does not stop the collection,
\* which still covers every account, and the holding (the wallet balance) of
\* the account it failed for is 0 to the planner and to the final report.
FailedQueryCountsAsZero ==
    /\ account_status # << >> => DOMAIN account_status = accounts_with_keys(config)
    /\ final_account_status # << >> =>
           DOMAIN final_account_status = accounts_with_keys(config)
    /\ \A n \in 1..Len(selected_accounts) :
          LET account == selected_accounts[n]
          IN  /\ SavingsFailed(account_status, account.id) => account.holding = 0
              /\ WalletFailed(account_status, account.id) => account.wallet = 0
    /\ \A n \in 1..Len(operations) :
          /\ operations[n].action = "redeem" =>
                 ~SavingsFailed(account_status, operations[n].account_id)
          /\ operations[n].action = "subscribe" =>
                 ~WalletFailed(account_status, operations[n].account_id)
    /\ \A n \in 1..Len(report.rows) :
          LET row == report.rows[n]
          IN  /\ SavingsFailed(account_status, row.id) => row.before_holding = 0
              /\ WalletFailed(account_status, row.id) => row.before_wallet = 0
              /\ SavingsFailed(final_account_status, row.id) => row.after_holding = 0
              /\ WalletFailed(final_account_status, row.id) => row.after_wallet = 0

\* the holding query of the main account failed while it holds the product:
\* the sub-account after it was still queried, the planner was given 0 for
\* the main account, and so was the report
FailedQueryCountsAsZeroWitness ==
    /\ report.rows # << >>
    /\ SavingsFailed(account_status, "main")
    /\ holding["main"] > 0
    /\ "1" \in DOMAIN account_status
    /\ Len(selected_accounts) = 2
    /\ selected_accounts[1].id = "main"
    /\ selected_accounts[1].holding = 0
    /\ report.rows[1].id = "main"
    /\ report.rows[1].before_holding = 0
    /\ report.rows[1].after_holding > 0


\* the row of the final report for one account
ReportRowOf(k) ==
    LET n == CHOOSE m \in 1..Len(report.rows) : report.rows[m].id = k
    IN  report.rows[n]

\* a run of the workflow in which no gateway call failed or raised, from the
\* first snapshot to the final one, with a drain-all plan
DrainAllRun ==
    /\ pc = "menu"
    /\ report.rows # << >>
    /\ op_choice = "3"
    /\ plan_return = "list"
    /\ faults = 0

\* C12: when a drain-all plan was computed for the selected accounts and
\* every gateway call succeeded, the report built from the snapshot taken
\* again shows a holding of 0 after the execution for every selected account.
DrainAllTotality ==
    DrainAllRun =>
        \A n \in 1..Len(selected_accounts) :
            ReportRowOf(selected_accounts[n].id).after_holding = 0

\* both accounts held the product, both were selected and drained
DrainAllTotalityWitness ==
    /\ DrainAllRun
    /\ Len(selected_accounts) = 2
    /\ Len(operations) = 2
    /\ \A n \in 1..2 : ReportRowOf(selected_accounts[n].id).before_holding > 0
    /\ \A n \in 1..2 : ReportRowOf(selected_accounts[n].id).change_desc = "redeemed"


(***************************************************************************)
(* Properties of the transfer planner: selections and sub-to-main plans.   *)
(***************************************************************************)
\* the snapshot as the planner is specified to read it
SnapshotBalance(k) ==
    LET r == account_balances[k].wallet_result
    IN  IF r.code = "00000" /\ r.data # << >> THEN r.data[1].available ELSE 0
SnapshotSubIds ==
    SelectSeq(KeysInOrder(account_balances),
              LAMBDA k : account_balances[k].account_info.type # "main")

\* the candidate list shown at the selection prompt
Candidates ==
    IF direction_choice = "1" THEN SnapshotSubIds
    ELSE IF transfer_mode = "1"
    THEN SelectSeq(SnapshotSubIds, LAMBDA k : SnapshotBalance(k) > 0)
    ELSE SelectSeq(SnapshotSubIds,
                   LAMBDA k : /\ SnapshotBalance(k) > 0
                              /\ transfer_amount_per_account # NaN
                              /\ SnapshotBalance(k) >= transfer_amount_per_account)

RequestedIds == {requested_subs[n].id : n \in 1..Len(requested_subs)}
TransfersFrom(k) == {n \in 1..Len(operations) : operations[n].from_account = k}

FixedAmountPlanned ==
    pc # "tr_step2" /\ direction_choice = "2" /\ transfer_mode = "2"

\* C15: in fixed-amount mode only sub-accounts whose balance is at least the
\* requested amount can be selected, and the plan holds one transfer to the
\* main account per selected account, for exactly the requested amount; so
\* no planned transfer exceeds the balance of its source.
FixedAmountEligibility ==
    FixedAmountPlanned =>
        /\ \A k \in RequestedIds : SnapshotBalance(k) >= transfer_amount_per_account
        /\ \A k \in RequestedIds : Cardinality(TransfersFrom(k)) = 1
        /\ \A n \in 1..Len(operations) :
              /\ operations[n].type = "sub_to_main"
              /\ operations[n].from_account \in RequestedIds
              /\ operations[n].amount = transfer_amount_per_account
              /\ operations[n].amount <= SnapshotBalance(operations[n].from_account)

DrainAllPlanned ==
    pc # "tr_step2" /\ direction_choice = "2" /\ transfer_mode = "1"

\* C16: in drain-all mode the plan holds exactly one transfer to the main
\* account per selected sub-account, for the whole available balance the
\* snapshot shows for it.
SubToMainDrainAll ==
    DrainAllPlanned =>
        /\ \A k \in RequestedIds : Cardinality(TransfersFrom(k)) = 1
        /\ \A n \in 1..Len(operations) :
              /\ operations[n].type = "sub_to_main"
              /\ operations[n].from_account \in RequestedIds
              /\ operations[n].amount = SnapshotBalance(operations[n].from_account)

\* a selection by indices: a line was typed and it is not the '0' of 'all'
IndexSelection ==
    /\ pc # "tr_step2"
    /\ selection_line # << >>
    /\ selection_line # <<[valid |-> TRUE, value |-> 0]>>
IndexInRange(t) == t.valid /\ t.value \in 1..Len(Candidates)

\* C17: when a selection is one index or a comma-separated list of indices
\* and some index is outside 1..len(candidates), the whole selection fails
\* and the planner returns no plan; when all are in range the selected
\* accounts are the indexed candidates, in the order given.
AllOrNothingSelection ==
    IndexSelection =>
        IF \A n \in 1..Len(selection_line) : IndexInRange(selection_line[n])
        THEN /\ Len(requested_subs) = Len(selection_line)
             /\ \A n \in 1..Len(selection_line) :
                   requested_subs[n].id = Candidates[selection_line[n].value]
        ELSE requested_subs = << >> /\ operations = << >> /\ plan_return = "None"

\* a list whose first index is valid and whose second is one past the end
\* is refused whole
AllOrNothingSelectionWitness ==
    /\ IndexSelection
    /\ Len(Candidates) = 2
    /\ Len(selection_line) = 2
    /\ IndexInRange(selection_line[1])
    /\ selection_line[2] = [valid |-> TRUE, value |-> 3]
    /\ operations = << >>
    /\ plan_return = "None"


(***************************************************************************)
(* Properties of the report of step5_final_query.                          *)
(***************************************************************************)
Reported == report.rows # << >>

\* the figures of the two snapshots, read from the stored answers
HoldingIn(statuses, k) ==
    IF k \in DOMAIN statuses /\ statuses[k].savings_result.code = "00000"
    THEN LET held == statuses[k].savings_result.data.resultList
         IN  IF held = << >> THEN 0 ELSE held[1].holdAmount
    ELSE 0
WalletIn(statuses, k) ==
    IF k \in DOMAIN statuses /\ statuses[k].wallet_result.code = "00000"
                             /\ statuses[k].wallet_result.data # << >>
    THEN statuses[k].wallet_result.data[1].available
    ELSE 0
HoldingDelta(k) == HoldingIn(final_account_status, k) - HoldingIn(account_status, k)

RowsOf(k) == {n \in 1..Len(report.rows) : report.rows[n].id = k}
TierLinesOf(k) == {n \in 1..Len(report.tiers) : report.tiers[n].id = k}
CeilingOfProduct == selected_product.apyList[1].maxStepVal
TierCount == Len(selected_product.apyList)

\* the class the summary puts an account in: the counter its line adds to
TierClass(n) ==
    CASE report.tiers[n].line = "tier2" -> "tier-2"
      [] report.tiers[n].line \in {"tier1", "over_tier1"} -> "tier-1"
      [] OTHER -> "not-invested"

InTier2(k) == HoldingIn(final_account_status, k) > CeilingOfProduct /\ TierCount >= 2

\* C18 as stated: an account is tier-1 exactly when 0 < holding <= ceiling,
\* tier-2 exactly when holding > ceiling and the product has two tiers or
\* more, not invested exactly when holding = 0, and the two counts are the
\* sizes of the classes.
TierOccupancyAsStated ==
    Reported =>
        /\ \A k \in DOMAIN final_account_status : \A n \in TierLinesOf(k) :
              LET h == HoldingIn(final_account_status, k)
              IN  /\ TierClass(n) = "tier-1" <=> (0 < h /\ h <= CeilingOfProduct)
                  /\ TierClass(n) = "tier-2" <=> InTier2(k)
                  /\ TierClass(n) = "not-invested" <=> h = 0
        /\ report.tier1_accounts =
               Cardinality({k \in DOMAIN final_account_status :
                               /\ 0 < HoldingIn(final_account_status, k)
                               /\ HoldingIn(final_account_status, k) <= CeilingOfProduct})
        /\ report.tier2_accounts =
               Cardinality({k \in DOMAIN final_account_status : InTier2(k)})

\* C18 amended: every account of the final snapshot has one line; it is
\* tier-2 exactly when holding > ceiling and the product has two tiers or
\* more, tier-1 exactly when holding > 0 and it is not tier-2 (a holding over
\* the ceiling of a product with a single tier counts with tier-1), not
\* invested exactly when holding = 0, and the two counts are the sizes of
\* the classes.
TierOccupancy ==
    Reported =>
        /\ \A k \in DOMAIN final_account_status :
              /\ Cardinality(TierLinesOf(k)) = 1
              /\ \A n \in TierLinesOf(k) :
                    LET h == HoldingIn(final_account_status, k)
                    IN  /\ TierClass(n) = "tier-2" <=> InTier2(k)
                        /\ TierClass(n) = "tier-1" <=> (h > 0 /\ ~InTier2(k))
                        /\ TierClass(n) = "not-invested" <=> h = 0
        /\ report.tier1_accounts =
               Cardinality({k \in DOMAIN final_account_status :
                               /\ HoldingIn(final_account_status, k) > 0
                               /\ ~InTier2(k)})
        /\ report.tier2_accounts =
               Cardinality({k \in DOMAIN final_account_status : InTier2(k)})

\* a product with a single tier, one account over its ceiling and one
\* account exactly at it: both count as invested
TierOccupancyWitness ==
    /\ Reported
    /\ TierCount = 1
    /\ \E k \in DOMAIN final_account_status :
          HoldingIn(final_account_status, k) > CeilingOfProduct
    /\ \E k \in DOMAIN final_account_status :
          HoldingIn(final_account_status, k) = CeilingOfProduct
    /\ report.tier1_accounts = 2
    /\ report.tier2_accounts = 0

\* C19: every account of the final snapshot has one row, whose change is
\* holding after - holding before; the row says "unchanged" when the change
\* is less than 0.000001 in absolute value, "subscribed" when it is positive
\* and not below the threshold, "redeemed" when it is negative and not below
\* the threshold, and nothing else.
DeltaClassification ==
    Reported =>
        \A k \in DOMAIN final_account_status :
            /\ Cardinality(RowsOf(k)) = 1
            /\ \A n \in RowsOf(k) :
                  LET row == report.rows[n]
                      d == HoldingDelta(k)
                  IN  /\ row.holding_change = d
                      /\ row.change_desc \in {"unchanged", "subscribed", "redeemed"}
                      /\ row.change_desc = "unchanged" <=> (0 - Amt(0, 1) < d /\ d < Amt(0, 1))
                      /\ row.change_desc = "subscribed" <=> d >= Amt(0, 1)
                      /\ row.change_desc = "redeemed" <=> d <= 0 - Amt(0, 1)

\* one account changed by 0.0000005 and is unchanged, another changed by
\* exactly 0.000001 and is subscribed
DeltaClassificationWitness ==
    /\ Reported
    /\ \E n \in 1..Len(report.rows) :
          /\ HoldingDelta(report.rows[n].id) = 5
          /\ report.rows[n].change_desc = "unchanged"
    /\ \E n \in 1..Len(report.rows) :
          /\ HoldingDelta(report.rows[n].id) = Amt(0, 1)
          /\ report.rows[n].change_desc = "subscribed"

RECURSIVE SumHolding(_, _)
SumHolding(statuses, accounts) ==
    IF accounts = {} THEN 0
    ELSE LET k == CHOOSE x \in accounts : TRUE
         IN  HoldingIn(statuses, k) + SumHolding(statuses, accounts \ {k})
RECURSIVE SumWallet(_, _)
SumWallet(statuses, accounts) ==
    IF accounts = {} THEN 0
    ELSE LET k == CHOOSE x \in accounts : TRUE
         IN  WalletIn(statuses, k) + SumWallet(statuses, accounts \ {k})

\* C20: each of the four totals is the sum of the figure over exactly the
\* accounts of the final snapshot, an account without an entry in the
\* original snapshot adding 0 to the totals before; the total changes are
\* total after - total before.
AggregateTotals ==
    Reported =>
        LET present == DOMAIN final_account_status
            totals == report.totals
        IN  /\ totals.before_holding = SumHolding(account_status, present)
            /\ totals.after_holding = SumHolding(final_account_status, present)
            /\ totals.before_wallet = SumWallet(account_status, present)
            /\ totals.after_wallet = SumWallet(final_account_status, present)
            /\ totals.holding_change = totals.after_holding - totals.before_holding
            /\ totals.wallet_change = totals.after_wallet - totals.before_wallet

\* an account that holds the product and has no entry in the original
\* snapshot, next to one that has: the totals before are those of the
\* second alone
AggregateTotalsWitness ==
    /\ Reported
    /\ \E k \in DOMAIN final_account_status \ DOMAIN account_status :
          HoldingIn(final_account_status, k) > 0
    /\ \E k \in DOMAIN final_account_status \cap DOMAIN account_status :
          /\ HoldingIn(account_status, k) > 0
          /\ report.totals.before_holding = HoldingIn(account_status, k)
          /\ report.totals.before_wallet = WalletIn(account_status, k)
    /\ report.totals.holding_change > 0


(***************************************************************************)
(* Further properties of the registry synchronisation.                     *)
(***************************************************************************)
\* C28: right after update_config_with_subaccounts has rewritten the config
\* from an exchange list, check_config_needs_update on the same list is
\* false.
SyncReachesFixpoint ==
    Updated => ~check_config_needs_update(config, subaccounts)


(***************************************************************************)
(* Further properties of the executors.                                    *)
(***************************************************************************)
\* C24: between any two consecutive gateway write calls of an execution the
\* pause elapses, whatever the outcome of the earlier call, and no pause
\* follows the last operation of the plan.
PacingBetweenOperations ==
    (Executing \/ ExecutorReturned) =>
        /\ \A n \in 1..Len(trace) - 1 :
              trace[n].event = "call" => trace[n + 1].event = "sleep"
        /\ \A n \in 1..Len(trace) :
              trace[n].event = "sleep" => trace[n].index < Len(operations)


(***************************************************************************)
(* Properties of the credential issuance.                                  *)
(***************************************************************************)
IssuanceEnded == pc \in {"menu", "crashed"}
IssuanceCalls == {n \in 1..Len(trace) : trace[n].event = "call"}

\* C29: after every run of the issuance, a run ended by an exception
\* included, every sub-account for which the gateway answered a successful
\* creation has that api key, secret and passphrase in the saved config.
IssuedCredentialsPersisted ==
    IssuanceEnded =>
        \A n \in IssuanceCalls :
            trace[n].outcome = "success" =>
                LET k == trace[n].request.account_id
                IN  /\ config[k].apikey = trace[n].data.subAccountApiKey
                    /\ config[k].secret = trace[n].data.secretKey
                    /\ config[k].passphrase = trace[n].request.passphrase

Issuing == pc = "init_step2" /\ pc' # "init_step2"
NeedsKey(k) == config[k].type = "sub" /\ config[k].apikey = Empty

\* C30: a run of the issuance asks for a key only for sub-accounts whose
\* stored api key is empty; it leaves unchanged the entry of the main
\* account, the credentials of every sub-account that had a key and those of
\* every sub-account whose call failed; when no sub-account needs a key it
\* makes no gateway call and does not write the config.
IssuanceFrame ==
    [][Issuing =>
          /\ \A n \in 1..Len(trace') :
                trace'[n].event = "call" => NeedsKey(trace'[n].request.account_id)
          /\ DOMAIN config' = DOMAIN config
          /\ config'["main"] = config["main"]
          /\ \A k \in DOMAIN config : ~NeedsKey(k) => config'[k] = config[k]
          /\ \A n \in 1..Len(trace') :
                (trace'[n].event = "call" /\ trace'[n].outcome # "success") =>
                    config'[trace'[n].request.account_id]
                        = config[trace'[n].request.account_id]
          /\ (\A k \in DOMAIN config : ~NeedsKey(k)) =>
                (trace' = << >> /\ config' = config)]_vars

\* a run over a config with one sub-account that has a key and two that
\* need one: the first call failed, the second succeeded, and only the
\* third slot changed
IssuanceFrameWitness ==
    /\ pc = "menu"
    /\ Len(trace) = 3
    /\ trace[1].event = "call" /\ trace[1].outcome = "failure"
    /\ trace[2].event = "call" /\ trace[2].outcome = "success"
    /\ trace[3].event = "save_config"
    /\ config[trace[1].request.account_id].apikey = Empty
    /\ config[trace[2].request.account_id].apikey = trace[2].data.subAccountApiKey
    /\ \E k \in DOMAIN config :
          /\ config[k].type = "sub"
          /\ config[k].apikey # Empty
          /\ \A n \in IssuanceCalls : trace[n].request.account_id # k


(***************************************************************************)
(* Further properties of the transfer planner.                             *)
(***************************************************************************)
PlanReturned == pc # "tr_step2" /\ plan_return = "list"
OperationsWith(k) ==
    {n \in 1..Len(operations) :
        operations[n].from_account = k \/ operations[n].to_account = k}
RECURSIVE PlannedOutOf(_, _)
PlannedOutOf(k, ops) ==
    IF ops = << >> THEN 0
    ELSE (IF ops[1].from_account = k THEN ops[1].amount ELSE 0)
             + PlannedOutOf(k, Tail(ops))

\* C27: in every plan the transfer planner returns, a selection that
\* repeats an index included, each sub-account is in at most one operation,
\* so that the total planned out of a sub-account is at most its snapshot
\* balance.
OneOperationPerAccount ==
    PlanReturned =>
        \A k \in DOMAIN account_balances :
            account_balances[k].account_info.type # "main" =>
                /\ Cardinality(OperationsWith(k)) <= 1
                /\ PlannedOutOf(k, operations) <= SnapshotBalance(k)


(***************************************************************************)
(* Properties of the two workflows.                                        *)
(***************************************************************************)
WriteCalls == {n \in 1..Len(trace) : trace[n].event = "call"}
ConfigUnusable ==
    ~selected_config_path \/ config_file \in {"missing", "invalid_json", "json_array"}

\* C21: when no config file is selected, or the selected file is unreadable
\* or malformed, a savings or transfer workflow sends no write operation,
\* gets no further than its first step, returns to the menu, and the
\* process is never ended by an uncaught error.
ConfigErrorsAbortToMenu ==
    ConfigUnusable =>
        /\ pc # "crashed"
        /\ pc \in {"menu", "sav_step1"}
        /\ WriteCalls = {}

\* C22: at every prompt an invalid input cancels the step: no prompt is
\* ever asked again, and a selection line with a field that is not an index
\* of the list ends the workflow at the menu with no plan and no write call.
InputErrorsCancelTheStep ==
    /\ \A n \in 1..Len(trace) : trace[n].event # "prompt_again"
    /\ (/\ pc \notin {"tr_step1", "tr_step2"}
        /\ selection_line # << >>
        /\ selection_line # <<[valid |-> TRUE, value |-> 0]>>
        /\ \E n \in 1..Len(selection_line) : ~IndexInRange(selection_line[n]))
           => (pc = "menu" /\ plan_return = "None" /\ WriteCalls = {})

\* C26: a subscribe, redeem or transfer call is sent only after a snapshot
\* was collected in the same run, a non-empty plan was built and the plan
\* was confirmed with 'y' (the planner returned the list); a refused
\* confirmation, a cancellation or a planning error leaves no write call.
NoWriteWithoutConfirmation ==
    \A n \in WriteCalls :
        /\ plan_return = "list"
        /\ operations # << >>
        /\ trace[n].request = operations[trace[n].index]
        /\ IF "action" \in DOMAIN trace[n].request
           THEN account_status # << >> /\ selected_product # NoProduct
           ELSE account_balances # << >>

\* a transfer workflow that was confirmed and sent its transfer, and a
\* state where nothing was sent because the answer was not 'y'
NoWriteWithoutConfirmationWitness ==
    /\ pc = "menu"
    /\ plan_return = "list"
    /\ Len(operations) = 2
    /\ Cardinality(WriteCalls) = 2
    /\ \A n \in WriteCalls : trace[n].request.type = "sub_to_main"

(***************************************************************************)
(* Properties of the snapshot collection thread by thread.                 *)
(***************************************************************************)
Submissions == {n \in 1..Len(trace) : trace[n].event = "submit"}
Outstanding ==
    {n \in Submissions : ~done(trace, trace[n].account_id, trace[n].call)}
DoneBefore(m, n) ==
    \E d \in (m + 1)..(n - 1) : /\ trace[d].event = "done"
                                /\ trace[d].account_id = trace[m].account_id
                                /\ trace[d].call = trace[m].call

\* C23: the three reads of one account may be in flight together, but all
\* three are done before a read of another account is issued, so at most
\* three reads are outstanding; and the snapshot entry of an account holds
\* the answers to that account's own three reads, whatever the order in
\* which they were completed.
BoundedReadFanOut ==
    /\ Cardinality(Outstanding) <= 3
    /\ \A m \in Submissions, n \in Submissions :
          (m < n /\ trace[m].account_id # trace[n].account_id) => DoneBefore(m, n)
    /\ \A k \in DOMAIN account_status :
          /\ account_status[k].subscribe_info =
                 done_entry(trace, k, ReadCalls[1]).result
          /\ account_status[k].subscribe_info.code \in {"00000", ErrorCode}
          /\ account_status[k].savings_result \in
                 {SavingsAnswer(selected_product.productId, holding[k]), SavingsError}
          /\ account_status[k].wallet_result \in
                 {WalletAnswer(wallet[k]), WalletError}

\* both accounts recorded with answered reads, the reads of the second
\* account completed in the reverse of the order of submission, all three
\* in flight at once
BoundedReadFanOutWitness ==
    /\ pc = "sav_step3"
    /\ Len(trace) = 12
    /\ \A n \in 1..Len(trace) : trace[n].event = "done" => trace[n].outcome = "success"
    /\ \A n \in 7..9 : trace[n].event = "submit"
    /\ trace[10].call = ReadCalls[3]
    /\ trace[12].call = ReadCalls[1]
    /\ account_status["1"].wallet_result = WalletAnswer(wallet["1"])
    /\ account_status["main"].wallet_result = WalletAnswer(wallet["main"])
    /\ wallet["1"] # wallet["main"]

(***************************************************************************)
(* Properties of the update check.                                         *)
(***************************************************************************)
MainState == <<pc, config, selected_config_path, config_file, regVars, snapVars,
               planVars, execVars, exchVars>>
InWorkflow == pc \notin {"start", "menu", "crashed"}

\* C25: the update check runs in a thread of its own: whatever it comes to
\* (a result, an error status, a network error or timeout, no return at
\* all) and however it is interleaved, a step of the thread changes nothing
\* of the control thread's state, and the control thread, scheduled alone,
\* leaves the start of main() for the menu and brings every workflow it
\* starts to its end (back at the menu, or stopped by an error of its own).
TelemetryIsolation ==
    /\ [][update_thread' # update_thread /\ update_thread # NotStarted
             => UNCHANGED MainState]_vars
    /\ <>[](~InWorkflow /\ pc # "start")

\* a workflow that executed its plan and is back at the menu while the check
\* has still not returned
TelemetryIsolationWitness ==
    /\ pc = "menu"
    /\ runs = MaxRuns
    /\ update_thread = Running
    /\ \E n \in 1..Len(trace) : trace[n].event = "call" /\ trace[n].outcome = "success"

====
